---------------------------- MODULE Spec2Model ----------------------------
(***************************************************************************)
(* Model of SS12000Client (ss12000client.py): construction, the parameter  *)
(* mapping of every public method, and the request dispatcher _request.    *)
(*                                                                         *)
(* A public method call is two steps of the calling thread: the method     *)
(* builds its query/body and _request hands the request to the transport   *)
(* (pc = "sent", the thread blocks in requests.request), then the          *)
(* transport answers or fails and _request returns or raises (pc =        *)
(* "done", the method's frame is gone and only the outcome is left).  The  *)
(* caller then goes on to its next statement (pc = "idle").                *)
(*                                                                         *)
(* Encoding of names.  TLC strings are atomic, so identifiers are kept as  *)
(* their words: a keyword (logical) name is the sequence of its            *)
(* underscore-separated words, start_date_on_or_before being               *)
(* <<"start","date","on","or","before">>; a wire key is the sequence of    *)
(* its dot-separated segments, each segment the sequence of its lowerCamel *)
(* words, startDate.onOrBefore being                                       *)
(* <<<<"start","date">>, <<"on","or","before">>>>.  Every key used by the  *)
(* client is lowerCamel per segment, so the encoding loses nothing.        *)
(***************************************************************************)
EXTENDS Integers, Sequences, FiniteSets, TLC

\* ----------------------------------------------------------------- bounds
NThreads == 2       \* caller threads sharing one client
MaxKw == 1          \* keyword arguments given to one list call
MaxIds == 2         \* length of an identifier list given to a lookup
MaxTypes == 2       \* length of resource_types given to create_subscription

\* ---------------------------------------------------------- Python values
\* A Python value: t is its type, s its text (str, bool, int), l its items
\* (list: the items; dict: key, value, key, value, ...).
PyNone == [t |-> "none", s |-> "", l |-> <<>>]
Str(x) == [t |-> "str", s |-> x, l |-> <<>>]
PyFalse == [t |-> "bool", s |-> "False", l |-> <<>>]
PyTrue == [t |-> "bool", s |-> "True", l |-> <<>>]
PyInt(x) == [t |-> "int", s |-> x, l |-> <<>>]
List(items) == [t |-> "list", s |-> "", l |-> items]
Dict1(k, v) == [t |-> "dict", s |-> "", l |-> <<Str(k), v>>]

\* Python truth value testing, as used by `if x:` and `not x`.
Truthy(v) ==
    CASE v.t = "none" -> FALSE
      [] v.t = "str"  -> v.s # ""
      [] v.t = "bool" -> v.s = "True"
      [] v.t = "int"  -> v.s # "0"
      [] OTHER        -> v.l # <<>>

\* dict: a function from keys to values.
EmptyDict == <<>>
Put(d, k, v) == [x \in (DOMAIN d) \cup {k} |-> IF x = k THEN v ELSE d[x]]
\* dict.get(k): None when the key is absent.
DictGet(d, k) == IF k \in DOMAIN d THEN d[k] ELSE PyNone

\* An optional dict argument of _request: not passed (the default None) or a dict.
NoDict == [given |-> FALSE, d |-> EmptyDict]
Given(d) == [given |-> TRUE, d |-> d]

\* Sequences over S of length 0..n.
SeqUpTo(S, n) == UNION {[1..k -> S] : k \in 0..n}

\* ------------------------------------------------ list filter tables
\* One table per list method: the mapped_params literal, one row per entry,
\* <<wire key, keyword name read by params.get>>.
\* get_organisations: /organisations
mapped_get_organisations == <<
    <<<<<<"parent">>>>, <<"parent">>>>,
    <<<<<<"school", "unit", "code">>>>, <<"school", "unit", "code">>>>,
    <<<<<<"organisation", "code">>>>, <<"organisation", "code">>>>,
    <<<<<<"municipality", "code">>>>, <<"municipality", "code">>>>,
    <<<<<<"type">>>>, <<"type">>>>,
    <<<<<<"school", "types">>>>, <<"school", "types">>>>,
    <<<<<<"start", "date">>, <<"on", "or", "before">>>>, <<"start", "date", "on", "or", "before">>>>,
    <<<<<<"start", "date">>, <<"on", "or", "after">>>>, <<"start", "date", "on", "or", "after">>>>,
    <<<<<<"end", "date">>, <<"on", "or", "before">>>>, <<"end", "date", "on", "or", "before">>>>,
    <<<<<<"end", "date">>, <<"on", "or", "after">>>>, <<"end", "date", "on", "or", "after">>>>,
    <<<<<<"meta">>, <<"created">>, <<"before">>>>, <<"meta", "created", "before">>>>,
    <<<<<<"meta">>, <<"created">>, <<"after">>>>, <<"meta", "created", "after">>>>,
    <<<<<<"meta">>, <<"modified">>, <<"before">>>>, <<"meta", "modified", "before">>>>,
    <<<<<<"meta">>, <<"modified">>, <<"after">>>>, <<"meta", "modified", "after">>>>,
    <<<<<<"expand", "reference", "names">>>>, <<"expand", "reference", "names">>>>,
    <<<<<<"sortkey">>>>, <<"sortkey">>>>,
    <<<<<<"limit">>>>, <<"limit">>>>,
    <<<<<<"page", "token">>>>, <<"page", "token">>>> >>

\* get_persons: /persons
mapped_get_persons == <<
    <<<<<<"name", "contains">>>>, <<"name", "contains">>>>,
    <<<<<<"civic", "no">>>>, <<"civic", "no">>>>,
    <<<<<<"edu", "person", "principal", "name">>>>, <<"edu", "person", "principal", "name">>>>,
    <<<<<<"identifier">>, <<"value">>>>, <<"identifier", "value">>>>,
    <<<<<<"identifier">>, <<"context">>>>, <<"identifier", "context">>>>,
    <<<<<<"relationship">>, <<"entity">>, <<"type">>>>, <<"relationship", "entity", "type">>>>,
    <<<<<<"relationship">>, <<"organisation">>>>, <<"relationship", "organisation">>>>,
    <<<<<<"relationship">>, <<"start", "date">>, <<"on", "or", "before">>>>, <<"relationship", "start", "date", "on", "or", "before">>>>,
    <<<<<<"relationship">>, <<"start", "date">>, <<"on", "or", "after">>>>, <<"relationship", "start", "date", "on", "or", "after">>>>,
    <<<<<<"relationship">>, <<"end", "date">>, <<"on", "or", "before">>>>, <<"relationship", "end", "date", "on", "or", "before">>>>,
    <<<<<<"relationship">>, <<"end", "date">>, <<"on", "or", "after">>>>, <<"relationship", "end", "date", "on", "or", "after">>>>,
    <<<<<<"meta">>, <<"created">>, <<"before">>>>, <<"meta", "created", "before">>>>,
    <<<<<<"meta">>, <<"created">>, <<"after">>>>, <<"meta", "created", "after">>>>,
    <<<<<<"meta">>, <<"modified">>, <<"before">>>>, <<"meta", "modified", "before">>>>,
    <<<<<<"meta">>, <<"modified">>, <<"after">>>>, <<"meta", "modified", "after">>>>,
    <<<<<<"expand">>>>, <<"expand">>>>,
    <<<<<<"expand", "reference", "names">>>>, <<"expand", "reference", "names">>>>,
    <<<<<<"sortkey">>>>, <<"sortkey">>>>,
    <<<<<<"limit">>>>, <<"limit">>>>,
    <<<<<<"page", "token">>>>, <<"page", "token">>>> >>

\* get_placements: /placements
mapped_get_placements == <<
    <<<<<<"child">>>>, <<"child">>>>,
    <<<<<<"group">>>>, <<"group">>>>,
    <<<<<<"owner">>>>, <<"owner">>>>,
    <<<<<<"placed", "at">>>>, <<"placed", "at">>>>,
    <<<<<<"school", "type">>>>, <<"school", "type">>>>,
    <<<<<<"start", "date">>, <<"on", "or", "before">>>>, <<"start", "date", "on", "or", "before">>>>,
    <<<<<<"start", "date">>, <<"on", "or", "after">>>>, <<"start", "date", "on", "or", "after">>>>,
    <<<<<<"end", "date">>, <<"on", "or", "before">>>>, <<"end", "date", "on", "or", "before">>>>,
    <<<<<<"end", "date">>, <<"on", "or", "after">>>>, <<"end", "date", "on", "or", "after">>>>,
    <<<<<<"meta">>, <<"created">>, <<"before">>>>, <<"meta", "created", "before">>>>,
    <<<<<<"meta">>, <<"created">>, <<"after">>>>, <<"meta", "created", "after">>>>,
    <<<<<<"meta">>, <<"modified">>, <<"before">>>>, <<"meta", "modified", "before">>>>,
    <<<<<<"meta">>, <<"modified">>, <<"after">>>>, <<"meta", "modified", "after">>>>,
    <<<<<<"expand">>>>, <<"expand">>>>,
    <<<<<<"expand", "reference", "names">>>>, <<"expand", "reference", "names">>>>,
    <<<<<<"sortkey">>>>, <<"sortkey">>>>,
    <<<<<<"limit">>>>, <<"limit">>>>,
    <<<<<<"page", "token">>>>, <<"page", "token">>>> >>

\* get_duties: /duties
mapped_get_duties == <<
    <<<<<<"person">>>>, <<"person">>>>,
    <<<<<<"duty", "at">>>>, <<"duty", "at">>>>,
    <<<<<<"duty", "role">>>>, <<"duty", "role">>>>,
    <<<<<<"signature">>>>, <<"signature">>>>,
    <<<<<<"start", "date">>, <<"on", "or", "before">>>>, <<"start", "date", "on", "or", "before">>>>,
    <<<<<<"start", "date">>, <<"on", "or", "after">>>>, <<"start", "date", "on", "or", "after">>>>,
    <<<<<<"end", "date">>, <<"on", "or", "before">>>>, <<"end", "date", "on", "or", "before">>>>,
    <<<<<<"end", "date">>, <<"on", "or", "after">>>>, <<"end", "date", "on", "or", "after">>>>,
    <<<<<<"meta">>, <<"created">>, <<"before">>>>, <<"meta", "created", "before">>>>,
    <<<<<<"meta">>, <<"created">>, <<"after">>>>, <<"meta", "created", "after">>>>,
    <<<<<<"meta">>, <<"modified">>, <<"before">>>>, <<"meta", "modified", "before">>>>,
    <<<<<<"meta">>, <<"modified">>, <<"after">>>>, <<"meta", "modified", "after">>>>,
    <<<<<<"expand">>>>, <<"expand">>>>,
    <<<<<<"expand", "reference", "names">>>>, <<"expand", "reference", "names">>>>,
    <<<<<<"sortkey">>>>, <<"sortkey">>>>,
    <<<<<<"limit">>>>, <<"limit">>>>,
    <<<<<<"page", "token">>>>, <<"page", "token">>>> >>

\* get_groups: /groups
mapped_get_groups == <<
    <<<<<<"group", "type">>>>, <<"group", "type">>>>,
    <<<<<<"school", "type">>>>, <<"school", "type">>>>,
    <<<<<<"organisation">>>>, <<"organisation">>>>,
    <<<<<<"start", "date">>, <<"on", "or", "before">>>>, <<"start", "date", "on", "or", "before">>>>,
    <<<<<<"start", "date">>, <<"on", "or", "after">>>>, <<"start", "date", "on", "or", "after">>>>,
    <<<<<<"end", "date">>, <<"on", "or", "before">>>>, <<"end", "date", "on", "or", "before">>>>,
    <<<<<<"end", "date">>, <<"on", "or", "after">>>>, <<"end", "date", "on", "or", "after">>>>,
    <<<<<<"meta">>, <<"created">>, <<"before">>>>, <<"meta", "created", "before">>>>,
    <<<<<<"meta">>, <<"created">>, <<"after">>>>, <<"meta", "created", "after">>>>,
    <<<<<<"meta">>, <<"modified">>, <<"before">>>>, <<"meta", "modified", "before">>>>,
    <<<<<<"meta">>, <<"modified">>, <<"after">>>>, <<"meta", "modified", "after">>>>,
    <<<<<<"expand">>>>, <<"expand">>>>,
    <<<<<<"expand", "reference", "names">>>>, <<"expand", "reference", "names">>>>,
    <<<<<<"sortkey">>>>, <<"sortkey">>>>,
    <<<<<<"limit">>>>, <<"limit">>>>,
    <<<<<<"page", "token">>>>, <<"page", "token">>>> >>

\* get_programmes: /programmes
mapped_get_programmes == <<
    <<<<<<"name", "contains">>>>, <<"name", "contains">>>>,
    <<<<<<"type">>>>, <<"type">>>>,
    <<<<<<"parent", "programme">>>>, <<"parent", "programme">>>>,
    <<<<<<"school", "type">>>>, <<"school", "type">>>>,
    <<<<<<"code">>>>, <<"code">>>>,
    <<<<<<"meta">>, <<"created">>, <<"before">>>>, <<"meta", "created", "before">>>>,
    <<<<<<"meta">>, <<"created">>, <<"after">>>>, <<"meta", "created", "after">>>>,
    <<<<<<"meta">>, <<"modified">>, <<"before">>>>, <<"meta", "modified", "before">>>>,
    <<<<<<"meta">>, <<"modified">>, <<"after">>>>, <<"meta", "modified", "after">>>>,
    <<<<<<"expand">>>>, <<"expand">>>>,
    <<<<<<"expand", "reference", "names">>>>, <<"expand", "reference", "names">>>>,
    <<<<<<"sortkey">>>>, <<"sortkey">>>>,
    <<<<<<"limit">>>>, <<"limit">>>>,
    <<<<<<"page", "token">>>>, <<"page", "token">>>> >>

\* Mutant: startDate.onOrBefore reads the keyword of the next row.
mapped_get_study_plans_pasted == <<
    <<<<<<"student">>>>, <<"student">>>>,
    <<<<<<"start", "date">>, <<"on", "or", "before">>>>, <<"start", "date", "on", "or", "after">>>>,
    <<<<<<"start", "date">>, <<"on", "or", "after">>>>, <<"start", "date", "on", "or", "after">>>>,
    <<<<<<"end", "date">>, <<"on", "or", "before">>>>, <<"end", "date", "on", "or", "before">>>>,
    <<<<<<"end", "date">>, <<"on", "or", "after">>>>, <<"end", "date", "on", "or", "after">>>>,
    <<<<<<"meta">>, <<"created">>, <<"before">>>>, <<"meta", "created", "before">>>>,
    <<<<<<"meta">>, <<"created">>, <<"after">>>>, <<"meta", "created", "after">>>>,
    <<<<<<"meta">>, <<"modified">>, <<"before">>>>, <<"meta", "modified", "before">>>>,
    <<<<<<"meta">>, <<"modified">>, <<"after">>>>, <<"meta", "modified", "after">>>>,
    <<<<<<"expand">>>>, <<"expand">>>>,
    <<<<<<"expand", "reference", "names">>>>, <<"expand", "reference", "names">>>>,
    <<<<<<"sortkey">>>>, <<"sortkey">>>>,
    <<<<<<"limit">>>>, <<"limit">>>>,
    <<<<<<"page", "token">>>>, <<"page", "token">>>> >>

\* get_study_plans: /studyplans
mapped_get_study_plans == <<
    <<<<<<"student">>>>, <<"student">>>>,
    <<<<<<"start", "date">>, <<"on", "or", "before">>>>, <<"start", "date", "on", "or", "before">>>>,
    <<<<<<"start", "date">>, <<"on", "or", "after">>>>, <<"start", "date", "on", "or", "after">>>>,
    <<<<<<"end", "date">>, <<"on", "or", "before">>>>, <<"end", "date", "on", "or", "before">>>>,
    <<<<<<"end", "date">>, <<"on", "or", "after">>>>, <<"end", "date", "on", "or", "after">>>>,
    <<<<<<"meta">>, <<"created">>, <<"before">>>>, <<"meta", "created", "before">>>>,
    <<<<<<"meta">>, <<"created">>, <<"after">>>>, <<"meta", "created", "after">>>>,
    <<<<<<"meta">>, <<"modified">>, <<"before">>>>, <<"meta", "modified", "before">>>>,
    <<<<<<"meta">>, <<"modified">>, <<"after">>>>, <<"meta", "modified", "after">>>>,
    <<<<<<"expand">>>>, <<"expand">>>>,
    <<<<<<"expand", "reference", "names">>>>, <<"expand", "reference", "names">>>>,
    <<<<<<"sortkey">>>>, <<"sortkey">>>>,
    <<<<<<"limit">>>>, <<"limit">>>>,
    <<<<<<"page", "token">>>>, <<"page", "token">>>> >>

\* get_syllabuses: /syllabuses
mapped_get_syllabuses == <<
    <<<<<<"school", "type">>>>, <<"school", "type">>>>,
    <<<<<<"subject", "code">>>>, <<"subject", "code">>>>,
    <<<<<<"subject", "name", "contains">>>>, <<"subject", "name", "contains">>>>,
    <<<<<<"subject", "designation">>>>, <<"subject", "designation">>>>,
    <<<<<<"course", "code">>>>, <<"course", "code">>>>,
    <<<<<<"course", "name", "contains">>>>, <<"course", "name", "contains">>>>,
    <<<<<<"start", "school", "year">>, <<"on", "or", "before">>>>, <<"start", "school", "year", "on", "or", "before">>>>,
    <<<<<<"start", "school", "year">>, <<"on", "or", "after">>>>, <<"start", "school", "year", "on", "or", "after">>>>,
    <<<<<<"end", "school", "year">>, <<"on", "or", "before">>>>, <<"end", "school", "year", "on", "or", "before">>>>,
    <<<<<<"end", "school", "year">>, <<"on", "or", "after">>>>, <<"end", "school", "year", "on", "or", "after">>>>,
    <<<<<<"points">>, <<"on", "or", "before">>>>, <<"points", "on", "or", "before">>>>,
    <<<<<<"points">>, <<"on", "or", "after">>>>, <<"points", "on", "or", "after">>>>,
    <<<<<<"curriculum">>>>, <<"curriculum">>>>,
    <<<<<<"language", "code">>>>, <<"language", "code">>>>,
    <<<<<<"official">>>>, <<"official">>>>,
    <<<<<<"meta">>, <<"created">>, <<"before">>>>, <<"meta", "created", "before">>>>,
    <<<<<<"meta">>, <<"created">>, <<"after">>>>, <<"meta", "created", "after">>>>,
    <<<<<<"meta">>, <<"modified">>, <<"before">>>>, <<"meta", "modified", "before">>>>,
    <<<<<<"meta">>, <<"modified">>, <<"after">>>>, <<"meta", "modified", "after">>>>,
    <<<<<<"expand", "reference", "names">>>>, <<"expand", "reference", "names">>>>,
    <<<<<<"sortkey">>>>, <<"sortkey">>>>,
    <<<<<<"limit">>>>, <<"limit">>>>,
    <<<<<<"page", "token">>>>, <<"page", "token">>>> >>

\* get_school_unit_offerings: /schoolUnitOfferings
mapped_get_school_unit_offerings == <<
    <<<<<<"offered", "at">>>>, <<"offered", "at">>>>,
    <<<<<<"offered", "syllabuses">>>>, <<"offered", "syllabuses">>>>,
    <<<<<<"offered", "programmes">>>>, <<"offered", "programmes">>>>,
    <<<<<<"start", "date">>, <<"on", "or", "before">>>>, <<"start", "date", "on", "or", "before">>>>,
    <<<<<<"start", "date">>, <<"on", "or", "after">>>>, <<"start", "date", "on", "or", "after">>>>,
    <<<<<<"end", "date">>, <<"on", "or", "before">>>>, <<"end", "date", "on", "or", "before">>>>,
    <<<<<<"end", "date">>, <<"on", "or", "after">>>>, <<"end", "date", "on", "or", "after">>>>,
    <<<<<<"meta">>, <<"created">>, <<"before">>>>, <<"meta", "created", "before">>>>,
    <<<<<<"meta">>, <<"created">>, <<"after">>>>, <<"meta", "created", "after">>>>,
    <<<<<<"meta">>, <<"modified">>, <<"before">>>>, <<"meta", "modified", "before">>>>,
    <<<<<<"meta">>, <<"modified">>, <<"after">>>>, <<"meta", "modified", "after">>>>,
    <<<<<<"expand">>>>, <<"expand">>>>,
    <<<<<<"expand", "reference", "names">>>>, <<"expand", "reference", "names">>>>,
    <<<<<<"sortkey">>>>, <<"sortkey">>>>,
    <<<<<<"limit">>>>, <<"limit">>>>,
    <<<<<<"page", "token">>>>, <<"page", "token">>>> >>

\* get_activities: /activities
mapped_get_activities == <<
    <<<<<<"organisation">>>>, <<"organisation">>>>,
    <<<<<<"syllabus">>>>, <<"syllabus">>>>,
    <<<<<<"activity", "type">>>>, <<"activity", "type">>>>,
    <<<<<<"calendar", "events", "required">>>>, <<"calendar", "events", "required">>>>,
    <<<<<<"start", "date">>, <<"on", "or", "before">>>>, <<"start", "date", "on", "or", "before">>>>,
    <<<<<<"start", "date">>, <<"on", "or", "after">>>>, <<"start", "date", "on", "or", "after">>>>,
    <<<<<<"end", "date">>, <<"on", "or", "before">>>>, <<"end", "date", "on", "or", "before">>>>,
    <<<<<<"end", "date">>, <<"on", "or", "after">>>>, <<"end", "date", "on", "or", "after">>>>,
    <<<<<<"meta">>, <<"created">>, <<"before">>>>, <<"meta", "created", "before">>>>,
    <<<<<<"meta">>, <<"created">>, <<"after">>>>, <<"meta", "created", "after">>>>,
    <<<<<<"meta">>, <<"modified">>, <<"before">>>>, <<"meta", "modified", "before">>>>,
    <<<<<<"meta">>, <<"modified">>, <<"after">>>>, <<"meta", "modified", "after">>>>,
    <<<<<<"expand">>>>, <<"expand">>>>,
    <<<<<<"expand", "reference", "names">>>>, <<"expand", "reference", "names">>>>,
    <<<<<<"sortkey">>>>, <<"sortkey">>>>,
    <<<<<<"limit">>>>, <<"limit">>>>,
    <<<<<<"page", "token">>>>, <<"page", "token">>>> >>

\* get_calendar_events: /calendarEvents
mapped_get_calendar_events == <<
    <<<<<<"activity">>>>, <<"activity">>>>,
    <<<<<<"start", "time">>, <<"on", "or", "before">>>>, <<"start", "time", "on", "or", "before">>>>,
    <<<<<<"start", "time">>, <<"on", "or", "after">>>>, <<"start", "time", "on", "or", "after">>>>,
    <<<<<<"end", "time">>, <<"on", "or", "before">>>>, <<"end", "time", "on", "or", "before">>>>,
    <<<<<<"end", "time">>, <<"on", "or", "after">>>>, <<"end", "time", "on", "or", "after">>>>,
    <<<<<<"cancelled">>>>, <<"cancelled">>>>,
    <<<<<<"room">>>>, <<"room">>>>,
    <<<<<<"resource">>>>, <<"resource">>>>,
    <<<<<<"meta">>, <<"created">>, <<"before">>>>, <<"meta", "created", "before">>>>,
    <<<<<<"meta">>, <<"created">>, <<"after">>>>, <<"meta", "created", "after">>>>,
    <<<<<<"meta">>, <<"modified">>, <<"before">>>>, <<"meta", "modified", "before">>>>,
    <<<<<<"meta">>, <<"modified">>, <<"after">>>>, <<"meta", "modified", "after">>>>,
    <<<<<<"expand">>>>, <<"expand">>>>,
    <<<<<<"expand", "reference", "names">>>>, <<"expand", "reference", "names">>>>,
    <<<<<<"sortkey">>>>, <<"sortkey">>>>,
    <<<<<<"limit">>>>, <<"limit">>>>,
    <<<<<<"page", "token">>>>, <<"page", "token">>>> >>

\* get_attendances: /attendances
mapped_get_attendances == <<
    <<<<<<"calendar", "event">>>>, <<"calendar", "event">>>>,
    <<<<<<"student">>>>, <<"student">>>>,
    <<<<<<"reporter">>>>, <<"reporter">>>>,
    <<<<<<"is", "reported">>>>, <<"is", "reported">>>>,
    <<<<<<"reported", "timestamp">>, <<"on", "or", "before">>>>, <<"reported", "timestamp", "on", "or", "before">>>>,
    <<<<<<"reported", "timestamp">>, <<"on", "or", "after">>>>, <<"reported", "timestamp", "on", "or", "after">>>>,
    <<<<<<"meta">>, <<"created">>, <<"before">>>>, <<"meta", "created", "before">>>>,
    <<<<<<"meta">>, <<"created">>, <<"after">>>>, <<"meta", "created", "after">>>>,
    <<<<<<"meta">>, <<"modified">>, <<"before">>>>, <<"meta", "modified", "before">>>>,
    <<<<<<"meta">>, <<"modified">>, <<"after">>>>, <<"meta", "modified", "after">>>>,
    <<<<<<"expand">>>>, <<"expand">>>>,
    <<<<<<"expand", "reference", "names">>>>, <<"expand", "reference", "names">>>>,
    <<<<<<"sortkey">>>>, <<"sortkey">>>>,
    <<<<<<"limit">>>>, <<"limit">>>>,
    <<<<<<"page", "token">>>>, <<"page", "token">>>> >>

\* get_attendance_events: /attendanceEvents
mapped_get_attendance_events == <<
    <<<<<<"person">>>>, <<"person">>>>,
    <<<<<<"registered", "by">>>>, <<"registered", "by">>>>,
    <<<<<<"group">>>>, <<"group">>>>,
    <<<<<<"room">>>>, <<"room">>>>,
    <<<<<<"time">>, <<"on", "or", "before">>>>, <<"time", "on", "or", "before">>>>,
    <<<<<<"time">>, <<"on", "or", "after">>>>, <<"time", "on", "or", "after">>>>,
    <<<<<<"event", "type">>>>, <<"event", "type">>>>,
    <<<<<<"meta">>, <<"created">>, <<"before">>>>, <<"meta", "created", "before">>>>,
    <<<<<<"meta">>, <<"created">>, <<"after">>>>, <<"meta", "created", "after">>>>,
    <<<<<<"meta">>, <<"modified">>, <<"before">>>>, <<"meta", "modified", "before">>>>,
    <<<<<<"meta">>, <<"modified">>, <<"after">>>>, <<"meta", "modified", "after">>>>,
    <<<<<<"expand">>>>, <<"expand">>>>,
    <<<<<<"expand", "reference", "names">>>>, <<"expand", "reference", "names">>>>,
    <<<<<<"sortkey">>>>, <<"sortkey">>>>,
    <<<<<<"limit">>>>, <<"limit">>>>,
    <<<<<<"page", "token">>>>, <<"page", "token">>>> >>

\* get_attendance_schedules: /attendanceSchedules
mapped_get_attendance_schedules == <<
    <<<<<<"placement">>>>, <<"placement">>>>,
    <<<<<<"number", "of", "weeks">>, <<"on", "or", "before">>>>, <<"number", "of", "weeks", "on", "or", "before">>>>,
    <<<<<<"number", "of", "weeks">>, <<"on", "or", "after">>>>, <<"number", "of", "weeks", "on", "or", "after">>>>,
    <<<<<<"start", "date">>, <<"on", "or", "before">>>>, <<"start", "date", "on", "or", "before">>>>,
    <<<<<<"start", "date">>, <<"on", "or", "after">>>>, <<"start", "date", "on", "or", "after">>>>,
    <<<<<<"end", "date">>, <<"on", "or", "before">>>>, <<"end", "date", "on", "or", "before">>>>,
    <<<<<<"end", "date">>, <<"on", "or", "after">>>>, <<"end", "date", "on", "or", "after">>>>,
    <<<<<<"temporary">>>>, <<"temporary">>>>,
    <<<<<<"state">>>>, <<"state">>>>,
    <<<<<<"meta">>, <<"created">>, <<"before">>>>, <<"meta", "created", "before">>>>,
    <<<<<<"meta">>, <<"created">>, <<"after">>>>, <<"meta", "created", "after">>>>,
    <<<<<<"meta">>, <<"modified">>, <<"before">>>>, <<"meta", "modified", "before">>>>,
    <<<<<<"meta">>, <<"modified">>, <<"after">>>>, <<"meta", "modified", "after">>>>,
    <<<<<<"expand">>>>, <<"expand">>>>,
    <<<<<<"expand", "reference", "names">>>>, <<"expand", "reference", "names">>>>,
    <<<<<<"sortkey">>>>, <<"sortkey">>>>,
    <<<<<<"limit">>>>, <<"limit">>>>,
    <<<<<<"page", "token">>>>, <<"page", "token">>>> >>

\* get_grades: /grades
mapped_get_grades == <<
    <<<<<<"student">>>>, <<"student">>>>,
    <<<<<<"school", "unit">>>>, <<"school", "unit">>>>,
    <<<<<<"registered", "by">>>>, <<"registered", "by">>>>,
    <<<<<<"grading", "teacher">>>>, <<"grading", "teacher">>>>,
    <<<<<<"group">>>>, <<"group">>>>,
    <<<<<<"registered", "date">>, <<"on", "or", "before">>>>, <<"registered", "date", "on", "or", "before">>>>,
    <<<<<<"registered", "date">>, <<"on", "or", "after">>>>, <<"registered", "date", "on", "or", "after">>>>,
    <<<<<<"grade", "value">>>>, <<"grade", "value">>>>,
    <<<<<<"final", "grade">>>>, <<"final", "grade">>>>,
    <<<<<<"trial">>>>, <<"trial">>>>,
    <<<<<<"adapted", "study", "plan">>>>, <<"adapted", "study", "plan">>>>,
    <<<<<<"correction", "type">>>>, <<"correction", "type">>>>,
    <<<<<<"converted">>>>, <<"converted">>>>,
    <<<<<<"semester">>>>, <<"semester">>>>,
    <<<<<<"year">>, <<"on", "or", "before">>>>, <<"year", "on", "or", "before">>>>,
    <<<<<<"year">>, <<"on", "or", "after">>>>, <<"year", "on", "or", "after">>>>,
    <<<<<<"syllabus">>>>, <<"syllabus">>>>,
    <<<<<<"meta">>, <<"created">>, <<"before">>>>, <<"meta", "created", "before">>>>,
    <<<<<<"meta">>, <<"created">>, <<"after">>>>, <<"meta", "created", "after">>>>,
    <<<<<<"meta">>, <<"modified">>, <<"before">>>>, <<"meta", "modified", "before">>>>,
    <<<<<<"meta">>, <<"modified">>, <<"after">>>>, <<"meta", "modified", "after">>>>,
    <<<<<<"expand">>>>, <<"expand">>>>,
    <<<<<<"expand", "reference", "names">>>>, <<"expand", "reference", "names">>>>,
    <<<<<<"sortkey">>>>, <<"sortkey">>>>,
    <<<<<<"limit">>>>, <<"limit">>>>,
    <<<<<<"page", "token">>>>, <<"page", "token">>>> >>

\* get_aggregated_attendances: /aggregatedAttendance
mapped_get_aggregated_attendances == <<
    <<<<<<"activity">>>>, <<"activity">>>>,
    <<<<<<"student">>>>, <<"student">>>>,
    <<<<<<"start", "date">>, <<"on", "or", "before">>>>, <<"start", "date", "on", "or", "before">>>>,
    <<<<<<"start", "date">>, <<"on", "or", "after">>>>, <<"start", "date", "on", "or", "after">>>>,
    <<<<<<"end", "date">>, <<"on", "or", "before">>>>, <<"end", "date", "on", "or", "before">>>>,
    <<<<<<"end", "date">>, <<"on", "or", "after">>>>, <<"end", "date", "on", "or", "after">>>>,
    <<<<<<"meta">>, <<"created">>, <<"before">>>>, <<"meta", "created", "before">>>>,
    <<<<<<"meta">>, <<"created">>, <<"after">>>>, <<"meta", "created", "after">>>>,
    <<<<<<"meta">>, <<"modified">>, <<"before">>>>, <<"meta", "modified", "before">>>>,
    <<<<<<"meta">>, <<"modified">>, <<"after">>>>, <<"meta", "modified", "after">>>>,
    <<<<<<"expand">>>>, <<"expand">>>>,
    <<<<<<"expand", "reference", "names">>>>, <<"expand", "reference", "names">>>>,
    <<<<<<"sortkey">>>>, <<"sortkey">>>>,
    <<<<<<"limit">>>>, <<"limit">>>>,
    <<<<<<"page", "token">>>>, <<"page", "token">>>> >>

\* Mutant: the table of get_resources with the expand row of the other tables.
mapped_get_resources_expand == <<
    <<<<<<"expand">>>>, <<"expand">>>>,
    <<<<<<"owner">>>>, <<"owner">>>>,
    <<<<<<"name", "contains">>>>, <<"name", "contains">>>>,
    <<<<<<"meta">>, <<"created">>, <<"before">>>>, <<"meta", "created", "before">>>>,
    <<<<<<"meta">>, <<"created">>, <<"after">>>>, <<"meta", "created", "after">>>>,
    <<<<<<"meta">>, <<"modified">>, <<"before">>>>, <<"meta", "modified", "before">>>>,
    <<<<<<"meta">>, <<"modified">>, <<"after">>>>, <<"meta", "modified", "after">>>>,
    <<<<<<"expand", "reference", "names">>>>, <<"expand", "reference", "names">>>>,
    <<<<<<"sortkey">>>>, <<"sortkey">>>>,
    <<<<<<"limit">>>>, <<"limit">>>>,
    <<<<<<"page", "token">>>>, <<"page", "token">>>> >>

\* get_resources: /resources
mapped_get_resources == <<
    <<<<<<"owner">>>>, <<"owner">>>>,
    <<<<<<"name", "contains">>>>, <<"name", "contains">>>>,
    <<<<<<"meta">>, <<"created">>, <<"before">>>>, <<"meta", "created", "before">>>>,
    <<<<<<"meta">>, <<"created">>, <<"after">>>>, <<"meta", "created", "after">>>>,
    <<<<<<"meta">>, <<"modified">>, <<"before">>>>, <<"meta", "modified", "before">>>>,
    <<<<<<"meta">>, <<"modified">>, <<"after">>>>, <<"meta", "modified", "after">>>>,
    <<<<<<"expand", "reference", "names">>>>, <<"expand", "reference", "names">>>>,
    <<<<<<"sortkey">>>>, <<"sortkey">>>>,
    <<<<<<"limit">>>>, <<"limit">>>>,
    <<<<<<"page", "token">>>>, <<"page", "token">>>> >>

\* get_rooms: /rooms
mapped_get_rooms == <<
    <<<<<<"owner">>>>, <<"owner">>>>,
    <<<<<<"name", "contains">>>>, <<"name", "contains">>>>,
    <<<<<<"meta">>, <<"created">>, <<"before">>>>, <<"meta", "created", "before">>>>,
    <<<<<<"meta">>, <<"created">>, <<"after">>>>, <<"meta", "created", "after">>>>,
    <<<<<<"meta">>, <<"modified">>, <<"before">>>>, <<"meta", "modified", "before">>>>,
    <<<<<<"meta">>, <<"modified">>, <<"after">>>>, <<"meta", "modified", "after">>>>,
    <<<<<<"expand", "reference", "names">>>>, <<"expand", "reference", "names">>>>,
    <<<<<<"sortkey">>>>, <<"sortkey">>>>,
    <<<<<<"limit">>>>, <<"limit">>>>,
    <<<<<<"page", "token">>>>, <<"page", "token">>>> >>

\* get_subscriptions: /subscriptions
mapped_get_subscriptions == <<
    <<<<<<"limit">>>>, <<"limit">>>>,
    <<<<<<"page", "token">>>>, <<"page", "token">>>> >>

\* get_log: /log
mapped_get_log == <<
    <<<<<<"source">>>>, <<"source">>>>,
    <<<<<<"target">>>>, <<"target">>>>,
    <<<<<<"event", "type">>>>, <<"event", "type">>>>,
    <<<<<<"timestamp">>, <<"on", "or", "before">>>>, <<"timestamp", "on", "or", "before">>>>,
    <<<<<<"timestamp">>, <<"on", "or", "after">>>>, <<"timestamp", "on", "or", "after">>>>,
    <<<<<<"meta">>, <<"created">>, <<"before">>>>, <<"meta", "created", "before">>>>,
    <<<<<<"meta">>, <<"created">>, <<"after">>>>, <<"meta", "created", "after">>>>,
    <<<<<<"meta">>, <<"modified">>, <<"before">>>>, <<"meta", "modified", "before">>>>,
    <<<<<<"meta">>, <<"modified">>, <<"after">>>>, <<"meta", "modified", "after">>>>,
    <<<<<<"sortkey">>>>, <<"sortkey">>>>,
    <<<<<<"limit">>>>, <<"limit">>>>,
    <<<<<<"page", "token">>>>, <<"page", "token">>>> >>

\* get_statistics: /statistics
mapped_get_statistics == <<
    <<<<<<"source">>>>, <<"source">>>>,
    <<<<<<"target">>>>, <<"target">>>>,
    <<<<<<"statistic", "type">>>>, <<"statistic", "type">>>>,
    <<<<<<"timestamp">>, <<"on", "or", "before">>>>, <<"timestamp", "on", "or", "before">>>>,
    <<<<<<"timestamp">>, <<"on", "or", "after">>>>, <<"timestamp", "on", "or", "after">>>>,
    <<<<<<"meta">>, <<"created">>, <<"before">>>>, <<"meta", "created", "before">>>>,
    <<<<<<"meta">>, <<"created">>, <<"after">>>>, <<"meta", "created", "after">>>>,
    <<<<<<"meta">>, <<"modified">>, <<"before">>>>, <<"meta", "modified", "before">>>>,
    <<<<<<"meta">>, <<"modified">>, <<"after">>>>, <<"meta", "modified", "after">>>>,
    <<<<<<"sortkey">>>>, <<"sortkey">>>>,
    <<<<<<"limit">>>>, <<"limit">>>>,
    <<<<<<"page", "token">>>>, <<"page", "token">>>> >>

\* ------------------------------------------------------- parameter mapper
\* Wire keys written as literals in the lookup, by-id and write methods.
K_ids == <<<<"ids">>>>
K_schoolUnitCodes == <<<<"school", "unit", "codes">>>>
K_organisationCodes == <<<<"organisation", "codes">>>>
K_civicNos == <<<<"civic", "nos">>>>
K_expand == <<<<"expand">>>>
K_expandReferenceNames == <<<<"expand", "reference", "names">>>>
K_name == <<<<"name">>>>
K_target == <<<<"target">>>>
K_resourceTypes == <<<<"resource", "types">>>>
K_expires == <<<<"expires">>>>
K_entities == <<<<"entities">>>>
K_metaModifiedAfter == <<<<"meta">>, <<"modified">>, <<"after">>>>

WireKeys(table) == {table[i][1] : i \in DOMAIN table}
KwNames(table) == {table[i][2] : i \in DOMAIN table}

\* Mutant: the values go through str() on their way into the dict.
MappedParams_str(table, kwargs) ==
    [w \in WireKeys(table) |->
        LET v == DictGet(kwargs, table[CHOOSE i \in DOMAIN table : table[i][1] = w][2])
        IN  IF v.t = "bool" THEN Str(v.s) ELSE v]

\* The mapped_params dict of a list method: every wire key of the table,
\* bound to params.get(keyword name), which is None for an absent keyword.
MappedParams(table, kwargs) ==
    [w \in WireKeys(table) |->
        DictGet(kwargs, table[CHOOSE i \in DOMAIN table : table[i][1] = w][2])]

\* Mutant: the comprehension without its `if v is not None`.
filtered_params_keep_none(mapped) == mapped

\* {k: v for k, v in mapped_params.items() if v is not None}
filtered_params(mapped) ==
    [k \in {x \in DOMAIN mapped : mapped[x] # PyNone} |-> mapped[k]]

\* The arguments a public method passes to _request.
Req(method, path, params, json_data) ==
    [method |-> method, path |-> path, params |-> params, json_data |-> json_data]

\* Mutant: the comprehension filters with `if v`.
ListRequest_truthy(table, resource, kwargs) ==
    LET mapped == MappedParams(table, kwargs)
    IN  Req("GET", <<resource>>,
            Given([k \in {x \in DOMAIN mapped : Truthy(mapped[x])} |-> mapped[k]]), NoDict)

\* get_<resources>(**params): GET /<resource> with the filtered mapping.
ListRequest(table, resource, kwargs) ==
    Req("GET", <<resource>>, Given(filtered_params(MappedParams(table, kwargs))), NoDict)

\* Mutant: the body always has the ids key.
IdsBody_always(ids) == Put(EmptyDict, K_ids, ids)

\* body = {'ids': ids} if ids else {}
IdsBody(ids) == IF Truthy(ids) THEN Put(EmptyDict, K_ids, ids) ELSE EmptyDict

\* params = {}; if expand: params['expand'] = expand;
\* if expand_reference_names: params['expandReferenceNames'] = expand_reference_names
ExpandParams(expand, expand_reference_names) ==
    LET p1 == IF Truthy(expand) THEN Put(EmptyDict, K_expand, expand) ELSE EmptyDict
    IN  IF Truthy(expand_reference_names)
        THEN Put(p1, K_expandReferenceNames, expand_reference_names) ELSE p1

\* Mutant: the flag is sent whatever its value.
ErnParams_always(expand_reference_names) ==
    Put(EmptyDict, K_expandReferenceNames, expand_reference_names)

\* params = {'expandReferenceNames': expand_reference_names} if expand_reference_names else {}
ErnParams(expand_reference_names) ==
    IF Truthy(expand_reference_names)
    THEN Put(EmptyDict, K_expandReferenceNames, expand_reference_names) ELSE EmptyDict

lookup_organisations_request(ids, school_unit_codes, organisation_codes, expand_reference_names) ==
    LET b1 == IdsBody(ids)
        b2 == IF Truthy(school_unit_codes)
              THEN Put(b1, K_schoolUnitCodes, school_unit_codes) ELSE b1
        b3 == IF Truthy(organisation_codes)
              THEN Put(b2, K_organisationCodes, organisation_codes) ELSE b2
    IN  Req("POST", <<"organisations", "lookup">>,
            Given(ErnParams(expand_reference_names)), Given(b3))

\* Mutant: params and json_data exchanged in the call of _request.
lookup_persons_request_swapped(ids, civic_nos, expand, expand_reference_names) ==
    LET b1 == IdsBody(ids)
        b2 == IF Truthy(civic_nos) THEN Put(b1, K_civicNos, civic_nos) ELSE b1
    IN  Req("POST", <<"persons", "lookup">>,
            Given(b2), Given(ExpandParams(expand, expand_reference_names)))

lookup_persons_request(ids, civic_nos, expand, expand_reference_names) ==
    LET b1 == IdsBody(ids)
        b2 == IF Truthy(civic_nos) THEN Put(b1, K_civicNos, civic_nos) ELSE b1
    IN  Req("POST", <<"persons", "lookup">>,
            Given(ExpandParams(expand, expand_reference_names)), Given(b2))

\* lookup_<resources>(ids, expand, expand_reference_names)
LookupExpandRequest(resource, ids, expand, expand_reference_names) ==
    Req("POST", <<resource, "lookup">>,
        Given(ExpandParams(expand, expand_reference_names)), Given(IdsBody(ids)))

\* lookup_<resources>(ids, expand_reference_names)
LookupPlainRequest(resource, ids, expand_reference_names) ==
    Req("POST", <<resource, "lookup">>,
        Given(ErnParams(expand_reference_names)), Given(IdsBody(ids)))

\* Mutant: the by-id path is the lookup path with the id appended.
ByIdExpandRequest_nested(resource, id, expand, expand_reference_names) ==
    Req("GET", <<resource, "lookup", id>>,
        Given(ExpandParams(expand, expand_reference_names)), NoDict)

\* get_<resource>_by_id(id, expand, expand_reference_names)
ByIdExpandRequest(resource, id, expand, expand_reference_names) ==
    Req("GET", <<resource, id>>, Given(ExpandParams(expand, expand_reference_names)), NoDict)

\* get_<resource>_by_id(id, expand_reference_names)
ByIdPlainRequest(resource, id, expand_reference_names) ==
    Req("GET", <<resource, id>>, Given(ErnParams(expand_reference_names)), NoDict)

\* delete_<resource>(id)
DeleteRequest(resource, id) == Req("DELETE", <<resource, id>>, NoDict, NoDict)

\* Mutant: the flat list of names sent as it is.
WrapResourceTypes_flat(resource_types) == resource_types

\* [{'resource': rt} for rt in resource_types]
WrapResourceTypes(resource_types) ==
    List([i \in DOMAIN resource_types.l |-> Dict1("resource", resource_types.l[i])])

create_subscription_request(name, target, resource_types) ==
    Req("POST", <<"subscriptions">>, NoDict,
        Given(Put(Put(Put(EmptyDict, K_name, name), K_target, target),
                  K_resourceTypes, WrapResourceTypes(resource_types))))

get_subscription_by_id_request(id) == Req("GET", <<"subscriptions", id>>, NoDict, NoDict)

\* Mutant: the update replaces the subscription with PUT.
update_subscription_request_put(id, expires) ==
    Req("PUT", <<"subscriptions", id>>, NoDict, Given(Put(EmptyDict, K_expires, expires)))

update_subscription_request(id, expires) ==
    Req("PATCH", <<"subscriptions", id>>, NoDict, Given(Put(EmptyDict, K_expires, expires)))

\* Mutant: the timestamp is sent whenever it is not None, the empty string too,
\* and under the key since.
get_deleted_entities_request_since(entities, meta_modified_after) ==
    LET p1 == Put(EmptyDict, K_entities, entities)
    IN  Req("GET", <<"deletedEntities">>,
            Given(IF meta_modified_after # PyNone
                  THEN Put(p1, <<<<"since">>>>, meta_modified_after) ELSE p1),
            NoDict)

get_deleted_entities_request(entities, meta_modified_after) ==
    LET p1 == Put(EmptyDict, K_entities, entities)
    IN  Req("GET", <<"deletedEntities">>,
            Given(IF Truthy(meta_modified_after)
                  THEN Put(p1, K_metaModifiedAfter, meta_modified_after) ELSE p1),
            NoDict)

\* ------------------------------------------------------------ dispatcher
\* A URL: scheme, network location and the segments of its path
\* ("https://some.server.se/v2.0" has path <<"v2.0">>).  The empty string
\* is EmptyURL.
EmptyURL == [scheme |-> "", netloc |-> "", path |-> <<>>]

\* urllib.parse.urljoin(base, path) for a path reference made of segments:
\* every path the client passes starts with "/", so the reference is an
\* absolute path and replaces the whole path of the base; a reference that
\* does not start with "/" replaces the last segment of the base path.
urljoin(base, absolute, segments) ==
    IF base = EmptyURL THEN [EmptyURL EXCEPT !.path = segments]
    ELSE IF absolute THEN [base EXCEPT !.path = segments]
    ELSE [base EXCEPT !.path = SubSeq(base.path, 1, Len(base.path) - 1) \o segments]

\* The client before construction and the object __init__ builds.
NoClient == [base_url |-> EmptyURL, headers |-> EmptyDict]

\* Mutant: the Authorization header is set whatever the token.
init_headers_always(auth_token) ==
    Put(Put(Put(EmptyDict, "Content-Type", <<"application/json">>),
            "Accept", <<"application/json">>),
        "Authorization", <<"Bearer", auth_token.s>>)

init_headers(auth_token) ==
    LET h == Put(Put(EmptyDict, "Content-Type", <<"application/json">>),
                 "Accept", <<"application/json">>)
    IN  IF Truthy(auth_token) THEN Put(h, "Authorization", <<"Bearer", auth_token.s>>) ELSE h

\* Mutant: the base URL is upgraded to https before it is stored.
init_client_normalised(base_url, auth_token) ==
    [base_url |-> [base_url EXCEPT !.scheme = "https"], headers |-> init_headers(auth_token)]

init_client(base_url, auth_token) ==
    [base_url |-> base_url, headers |-> init_headers(auth_token)]

init_warnings(base_url, auth_token) ==
    (IF base_url.scheme # "https" THEN {"no_https"} ELSE {})
    \cup (IF ~Truthy(auth_token) THEN {"no_token"} ELSE {})

\* The call requests.request(method, url, params=, json=, headers=, timeout=30).
NoRequest ==
    [method |-> "", url |-> EmptyURL, params |-> NoDict, json |-> NoDict,
     headers |-> EmptyDict, timeout |-> 0]

\* Mutant: requests.request called without timeout= (None: wait for ever).
TransportRequest_no_timeout(c, req) ==
    [method |-> req.method, url |-> urljoin(c.base_url, TRUE, req.path),
     params |-> req.params, json |-> req.json_data,
     headers |-> c.headers, timeout |-> 0]

TransportRequest(c, req) ==
    [method |-> req.method, url |-> urljoin(c.base_url, TRUE, req.path),
     params |-> req.params, json |-> req.json_data,
     headers |-> c.headers, timeout |-> 30]

\* What the transport does with a request: an HTTP response (status, body
\* text) or a failure raised by requests.request.
NoResponse == [kind |-> "none", status |-> 0, text |-> "", exc |-> ""]
HttpResponse(status, text) == [kind |-> "http", status |-> status, text |-> text, exc |-> ""]
TransportFailure(exc) == [kind |-> "fail", status |-> 0, text |-> "", exc |-> exc]

\* response.json() on the body texts of the model.
JsonTexts == {"null", "{\"error\":\"not found\"}", "{\"pageToken\":\"t1\"}"}
\* Mutant: the decoded payload is wrapped in an envelope.
JsonLoads_wrapped(text) ==
    CASE text = "null" -> Dict1("data", PyNone)
      [] text = "{\"pageToken\":\"t1\"}" -> Dict1("data", Dict1("pageToken", Str("t1")))
      [] OTHER -> Dict1("data", Dict1("error", Str("not found")))

JsonLoads(text) ==
    CASE text = "null" -> PyNone
      [] text = "{\"pageToken\":\"t1\"}" -> Dict1("pageToken", Str("t1"))
      [] OTHER -> Dict1("error", Str("not found"))

\* Exception classes: which class an except clause catches.
\* requests.exceptions.JSONDecodeError derives from RequestException (through
\* InvalidJSONError) and from json.JSONDecodeError.
Catches(clause, exc) ==
    \/ clause = exc
    \/ clause = "RequestException"
         /\ exc \in {"HTTPError", "ConnectionError", "Timeout", "JSONDecodeError"}
    \/ clause = "json.JSONDecodeError" /\ exc = "JSONDecodeError"

\* The result of a call: nothing yet, a returned value, or a raised exception
\* with the response it carries (e.response) and what was printed.
NoOutcome ==
    [kind |-> "none", value |-> PyNone, exc |-> "", response |-> NoResponse, printed |-> <<>>]
Return(v) ==
    [kind |-> "return", value |-> v, exc |-> "", response |-> NoResponse, printed |-> <<>>]
Raise(exc, resp, printed) ==
    [kind |-> "raise", value |-> PyNone, exc |-> exc, response |-> resp, printed |-> printed]

\* Mutant: only the server errors raise.
RaisesForStatus_server_only(status) == 500 <= status /\ status < 600

\* response.raise_for_status(): HTTPError for 4xx and 5xx.
RaisesForStatus(status) == 400 <= status /\ status < 600

\* Mutant: a body that does not decode is returned as text.
TryBlock_lenient(resp) ==
    IF resp.kind = "fail" THEN Raise(resp.exc, NoResponse, <<>>)
    ELSE IF RaisesForStatus(resp.status) THEN Raise("HTTPError", resp, <<>>)
    ELSE IF resp.status = 204 THEN Return(PyNone)
    ELSE IF resp.text \in JsonTexts THEN Return(JsonLoads(resp.text))
    ELSE Return(Str(resp.text))

\* The try block of _request: the value returned, or the exception raised
\* with the response it carries (HTTPError carries the response, the decode
\* error raised by response.json() carries none).
TryBlock(resp) ==
    IF resp.kind = "fail" THEN Raise(resp.exc, NoResponse, <<>>)
    ELSE IF RaisesForStatus(resp.status) THEN Raise("HTTPError", resp, <<>>)
    ELSE IF resp.status = 204 THEN Return(PyNone)
    ELSE IF resp.text \in JsonTexts THEN Return(JsonLoads(resp.text))
    ELSE Raise("JSONDecodeError", NoResponse, <<>>)

\* Mutant: the except clause around e.response.json() does not catch the
\* decode error.
ExceptBlock_uncaught(e) ==
    IF e.response = NoResponse THEN [e EXCEPT !.printed = <<"error">>]
    ELSE IF e.response.text \in JsonTexts
         THEN [e EXCEPT !.printed = <<"error", "api_error_json">>]
    ELSE Raise("JSONDecodeError", NoResponse, <<"error">>)

\* The except block of _request for the exception e: print the error, print
\* the body of e.response decoded or, when decoding fails, as text, re-raise e.
ExceptBlock(e) ==
    IF e.response = NoResponse THEN [e EXCEPT !.printed = <<"error">>]
    ELSE IF e.response.text \in JsonTexts
         THEN [e EXCEPT !.printed = <<"error", "api_error_json">>]
    ELSE IF Catches("json.JSONDecodeError", "JSONDecodeError")
         THEN [e EXCEPT !.printed = <<"error", "api_error_text">>]
    ELSE Raise("JSONDecodeError", NoResponse, <<"error">>)

\* Mutant: the except block returns None instead of re-raising.
RequestOutcome_swallow(resp) ==
    LET r == TryBlock(resp)
    IN  IF r.kind = "raise" /\ Catches("RequestException", r.exc)
        THEN Return(PyNone) ELSE r

\* _request from the answer of the transport to its return or raise.
RequestOutcome(resp) ==
    LET r == TryBlock(resp)
    IN  IF r.kind = "raise" /\ Catches("RequestException", r.exc)
        THEN ExceptBlock(r) ELSE r

\* ------------------------------------------------------------------ state
VARIABLES
    ctor,       \* the arguments of the last call of the constructor
    client,     \* the SS12000Client object: base_url and headers
    warnings,   \* the warnings __init__ printed
    pc,         \* "new": no client yet; "idle": between calls;
                \* "sent": blocked in requests.request; "done": the call is over
    invoked,    \* name of the public method invoked last
    frame,      \* arguments of the running method and the request it handed over
    attempts,   \* calls of requests.request made by the method invoked last
    response,   \* what the transport answered to the method invoked last
    outcome,    \* what the method invoked last returned or raised
    page_token_seen, \* history: a page token was given to a call or came in a response
    threads     \* the calls of the threads that share the client concurrently

vars == <<ctor, client, warnings, pc, invoked, frame, attempts, response, outcome,
          page_token_seen, threads>>

NoCtor == [base_url |-> EmptyURL, auth_token |-> PyNone]
NoFrame == [args |-> EmptyDict, path |-> <<>>, request |-> NoRequest]

\* The caller threads and what each is doing: the method it called with its
\* arguments, the arguments that method built for _request (req), the request
\* _request handed to the transport, the answer and the outcome.
Threads == 1..NThreads
IdleThread ==
    [pc |-> "idle", name |-> "", args |-> EmptyDict, req |-> Req("", <<>>, NoDict, NoDict),
     request |-> NoRequest, response |-> NoResponse, outcome |-> NoOutcome]

\* ----------------------------------------------------------------- inputs
BaseURLs ==
    { EmptyURL,
      [scheme |-> "https", netloc |-> "some.server.se", path |-> <<"v2.0">>],
      [scheme |-> "http", netloc |-> "localhost:8080", path |-> <<>>] }
AuthTokens == {PyNone, Str(""), Str("YOUR_JWT_TOKEN_HERE")}

KwValues == {PyNone, Str("2024-01-01"), PyFalse}
\* Keyword names no list method reads (bogus, and the wire spelling
\* pageToken) and names that some list methods do not read (sortkey:
\* get_subscriptions; expand: the methods without an expand filter).
ExtraNames == {<<"bogus">>, <<"pageToken">>, <<"sortkey">>, <<"expand">>}
\* The keyword dicts with at most MaxKw keys taken from names.
KwargsOver(names) ==
    UNION {[S -> KwValues] :
             S \in UNION {{ {s[i] : i \in 1..k} : s \in [1..k -> names] } : k \in 0..MaxKw}}

Ids == {"id1", "id2"}
IdLists == {PyNone} \cup {List(s) : s \in SeqUpTo({Str("p1"), Str("p2")}, MaxIds)}
CodeLists == {PyNone, List(<<>>), List(<<Str("c1")>>)}
ExpandLists == {PyNone, List(<<>>), List(<<Str("duties")>>)}
Flags == {PyFalse, PyTrue}
Names == {Str("n")}
Targets == {Str("http://x")}
ResourceTypeLists == {List(s) : s \in SeqUpTo({Str("Person"), Str("Activity")}, MaxTypes)}
Timestamps == {Str("2025-01-01T00:00:00Z")}
OptTimestamps == {PyNone, Str("")} \cup Timestamps
EntityLists == {PyNone, List(<<>>), List(<<Str("Person")>>)}

Statuses == {200, 201, 204, 404, 500}
BodyTexts == JsonTexts \cup {"Not Found", ""}
TransportErrors == {"ConnectionError", "Timeout"}

\* The named arguments of a call as a dict.
Kw(pairs) ==
    [n \in {pairs[i][1] : i \in DOMAIN pairs} |->
        pairs[CHOOSE i \in DOMAIN pairs : pairs[i][1] = n][2]]

\* ---------------------------------------------------------------- actions
Init ==
    /\ ctor = NoCtor
    /\ client = NoClient
    /\ warnings = {}
    /\ pc = "new"
    /\ invoked = ""
    /\ frame = NoFrame
    /\ attempts = 0
    /\ response = NoResponse
    /\ outcome = NoOutcome
    /\ page_token_seen = FALSE
    /\ threads = [t \in Threads |-> IdleThread]

\* Mutant: __init__ without its `if not base_url: raise ValueError`.
Construct_unchecked ==
    /\ pc = "new"
    /\ \E base_url \in BaseURLs, auth_token \in AuthTokens :
         /\ ctor' = [base_url |-> base_url, auth_token |-> auth_token]
         /\ client' = init_client(base_url, auth_token)
         /\ warnings' = init_warnings(base_url, auth_token)
         /\ pc' = "idle"
         /\ outcome' = NoOutcome
    /\ invoked' = "__init__"
    /\ UNCHANGED <<frame, attempts, response, page_token_seen, threads>>

\* SS12000Client(base_url, auth_token)
Construct ==
    /\ pc = "new"
    /\ \E base_url \in BaseURLs, auth_token \in AuthTokens :
         IF base_url = EmptyURL
         THEN /\ ctor' = [base_url |-> base_url, auth_token |-> auth_token]
              /\ outcome' = Raise("ValueError", NoResponse, <<>>)
              /\ UNCHANGED <<client, warnings, pc>>
         ELSE /\ ctor' = [base_url |-> base_url, auth_token |-> auth_token]
              /\ client' = init_client(base_url, auth_token)
              /\ warnings' = init_warnings(base_url, auth_token)
              /\ pc' = "idle"
              /\ outcome' = NoOutcome
    /\ invoked' = "__init__"
    /\ UNCHANGED <<frame, attempts, response, page_token_seen, threads>>

\* Mutant: a page token seen earlier is sent again when the call gives none.
Invoke_retains(name, args, req) ==
    LET sticky == IF page_token_seen /\ req.params.given
                  THEN [req EXCEPT !.params.d = Put(req.params.d, <<<<"page", "token">>>>, Str("t1"))]
                  ELSE req
    IN  /\ invoked' = name
        /\ frame' = [args |-> args, path |-> req.path,
                     request |-> TransportRequest(client, sticky)]
        /\ attempts' = 1
        /\ pc' = "sent"
        /\ response' = NoResponse
        /\ outcome' = NoOutcome
        /\ page_token_seen' = (page_token_seen \/ DictGet(args, <<"page", "token">>) # PyNone)
        /\ UNCHANGED <<ctor, client, warnings, threads>>

\* A public method, callable between calls (pc = "idle"), up to the point
\* where _request blocks in requests.request.
Invoke(name, args, req) ==
    /\ invoked' = name
    /\ frame' = [args |-> args, path |-> req.path, request |-> TransportRequest(client, req)]
    /\ attempts' = 1
    /\ pc' = "sent"
    /\ response' = NoResponse
    /\ outcome' = NoOutcome
    /\ page_token_seen' = (page_token_seen \/ DictGet(args, <<"page", "token">>) # PyNone)
    /\ UNCHANGED <<ctor, client, warnings, threads>>

get_organisations ==
    /\ pc = "idle"
    /\ \E kwargs \in KwargsOver(KwNames(mapped_get_organisations) \cup ExtraNames) :
        Invoke("get_organisations", kwargs, ListRequest(mapped_get_organisations, "organisations", kwargs))

lookup_organisations ==
    /\ pc = "idle"
    /\ \E ids \in IdLists, school_unit_codes \in CodeLists, organisation_codes \in CodeLists, expand_reference_names \in Flags :
        Invoke("lookup_organisations",
               Kw(<<<<<<"ids">>, ids>>,
                    <<<<"school", "unit", "codes">>, school_unit_codes>>,
                    <<<<"organisation", "codes">>, organisation_codes>>,
                    <<<<"expand", "reference", "names">>, expand_reference_names>>>>),
               lookup_organisations_request(ids, school_unit_codes, organisation_codes, expand_reference_names))

get_organisation_by_id ==
    /\ pc = "idle"
    /\ \E org_id \in Ids, expand_reference_names \in Flags :
        Invoke("get_organisation_by_id",
               Kw(<<<<<<"org", "id">>, Str(org_id)>>,
                    <<<<"expand", "reference", "names">>, expand_reference_names>>>>),
               ByIdPlainRequest("organisations", org_id, expand_reference_names))

get_persons ==
    /\ pc = "idle"
    /\ \E kwargs \in KwargsOver(KwNames(mapped_get_persons) \cup ExtraNames) :
        Invoke("get_persons", kwargs, ListRequest(mapped_get_persons, "persons", kwargs))

lookup_persons ==
    /\ pc = "idle"
    /\ \E ids \in IdLists, civic_nos \in CodeLists, expand \in ExpandLists, expand_reference_names \in Flags :
        Invoke("lookup_persons",
               Kw(<<<<<<"ids">>, ids>>,
                    <<<<"civic", "nos">>, civic_nos>>,
                    <<<<"expand">>, expand>>,
                    <<<<"expand", "reference", "names">>, expand_reference_names>>>>),
               lookup_persons_request(ids, civic_nos, expand, expand_reference_names))

get_person_by_id ==
    /\ pc = "idle"
    /\ \E person_id \in Ids, expand \in ExpandLists, expand_reference_names \in Flags :
        Invoke("get_person_by_id",
               Kw(<<<<<<"person", "id">>, Str(person_id)>>,
                    <<<<"expand">>, expand>>,
                    <<<<"expand", "reference", "names">>, expand_reference_names>>>>),
               ByIdExpandRequest("persons", person_id, expand, expand_reference_names))

get_placements ==
    /\ pc = "idle"
    /\ \E kwargs \in KwargsOver(KwNames(mapped_get_placements) \cup ExtraNames) :
        Invoke("get_placements", kwargs, ListRequest(mapped_get_placements, "placements", kwargs))

lookup_placements ==
    /\ pc = "idle"
    /\ \E ids \in IdLists, expand \in ExpandLists, expand_reference_names \in Flags :
        Invoke("lookup_placements",
               Kw(<<<<<<"ids">>, ids>>,
                    <<<<"expand">>, expand>>,
                    <<<<"expand", "reference", "names">>, expand_reference_names>>>>),
               LookupExpandRequest("placements", ids, expand, expand_reference_names))

get_placement_by_id ==
    /\ pc = "idle"
    /\ \E placement_id \in Ids, expand \in ExpandLists, expand_reference_names \in Flags :
        Invoke("get_placement_by_id",
               Kw(<<<<<<"placement", "id">>, Str(placement_id)>>,
                    <<<<"expand">>, expand>>,
                    <<<<"expand", "reference", "names">>, expand_reference_names>>>>),
               ByIdExpandRequest("placements", placement_id, expand, expand_reference_names))

get_duties ==
    /\ pc = "idle"
    /\ \E kwargs \in KwargsOver(KwNames(mapped_get_duties) \cup ExtraNames) :
        Invoke("get_duties", kwargs, ListRequest(mapped_get_duties, "duties", kwargs))

lookup_duties ==
    /\ pc = "idle"
    /\ \E ids \in IdLists, expand \in ExpandLists, expand_reference_names \in Flags :
        Invoke("lookup_duties",
               Kw(<<<<<<"ids">>, ids>>,
                    <<<<"expand">>, expand>>,
                    <<<<"expand", "reference", "names">>, expand_reference_names>>>>),
               LookupExpandRequest("duties", ids, expand, expand_reference_names))

get_duty_by_id ==
    /\ pc = "idle"
    /\ \E duty_id \in Ids, expand \in ExpandLists, expand_reference_names \in Flags :
        Invoke("get_duty_by_id",
               Kw(<<<<<<"duty", "id">>, Str(duty_id)>>,
                    <<<<"expand">>, expand>>,
                    <<<<"expand", "reference", "names">>, expand_reference_names>>>>),
               ByIdExpandRequest("duties", duty_id, expand, expand_reference_names))

get_groups ==
    /\ pc = "idle"
    /\ \E kwargs \in KwargsOver(KwNames(mapped_get_groups) \cup ExtraNames) :
        Invoke("get_groups", kwargs, ListRequest(mapped_get_groups, "groups", kwargs))

lookup_groups ==
    /\ pc = "idle"
    /\ \E ids \in IdLists, expand \in ExpandLists, expand_reference_names \in Flags :
        Invoke("lookup_groups",
               Kw(<<<<<<"ids">>, ids>>,
                    <<<<"expand">>, expand>>,
                    <<<<"expand", "reference", "names">>, expand_reference_names>>>>),
               LookupExpandRequest("groups", ids, expand, expand_reference_names))

get_group_by_id ==
    /\ pc = "idle"
    /\ \E group_id \in Ids, expand \in ExpandLists, expand_reference_names \in Flags :
        Invoke("get_group_by_id",
               Kw(<<<<<<"group", "id">>, Str(group_id)>>,
                    <<<<"expand">>, expand>>,
                    <<<<"expand", "reference", "names">>, expand_reference_names>>>>),
               ByIdExpandRequest("groups", group_id, expand, expand_reference_names))

get_programmes ==
    /\ pc = "idle"
    /\ \E kwargs \in KwargsOver(KwNames(mapped_get_programmes) \cup ExtraNames) :
        Invoke("get_programmes", kwargs, ListRequest(mapped_get_programmes, "programmes", kwargs))

lookup_programmes ==
    /\ pc = "idle"
    /\ \E ids \in IdLists, expand \in ExpandLists, expand_reference_names \in Flags :
        Invoke("lookup_programmes",
               Kw(<<<<<<"ids">>, ids>>,
                    <<<<"expand">>, expand>>,
                    <<<<"expand", "reference", "names">>, expand_reference_names>>>>),
               LookupExpandRequest("programmes", ids, expand, expand_reference_names))

get_programme_by_id ==
    /\ pc = "idle"
    /\ \E programme_id \in Ids, expand \in ExpandLists, expand_reference_names \in Flags :
        Invoke("get_programme_by_id",
               Kw(<<<<<<"programme", "id">>, Str(programme_id)>>,
                    <<<<"expand">>, expand>>,
                    <<<<"expand", "reference", "names">>, expand_reference_names>>>>),
               ByIdExpandRequest("programmes", programme_id, expand, expand_reference_names))

get_study_plans ==
    /\ pc = "idle"
    /\ \E kwargs \in KwargsOver(KwNames(mapped_get_study_plans) \cup ExtraNames) :
        Invoke("get_study_plans", kwargs, ListRequest(mapped_get_study_plans, "studyplans", kwargs))

lookup_study_plans ==
    /\ pc = "idle"
    /\ \E ids \in IdLists, expand \in ExpandLists, expand_reference_names \in Flags :
        Invoke("lookup_study_plans",
               Kw(<<<<<<"ids">>, ids>>,
                    <<<<"expand">>, expand>>,
                    <<<<"expand", "reference", "names">>, expand_reference_names>>>>),
               LookupExpandRequest("studyplans", ids, expand, expand_reference_names))

get_study_plan_by_id ==
    /\ pc = "idle"
    /\ \E study_plan_id \in Ids, expand \in ExpandLists, expand_reference_names \in Flags :
        Invoke("get_study_plan_by_id",
               Kw(<<<<<<"study", "plan", "id">>, Str(study_plan_id)>>,
                    <<<<"expand">>, expand>>,
                    <<<<"expand", "reference", "names">>, expand_reference_names>>>>),
               ByIdExpandRequest("studyplans", study_plan_id, expand, expand_reference_names))

get_syllabuses ==
    /\ pc = "idle"
    /\ \E kwargs \in KwargsOver(KwNames(mapped_get_syllabuses) \cup ExtraNames) :
        Invoke("get_syllabuses", kwargs, ListRequest(mapped_get_syllabuses, "syllabuses", kwargs))

lookup_syllabuses ==
    /\ pc = "idle"
    /\ \E ids \in IdLists, expand_reference_names \in Flags :
        Invoke("lookup_syllabuses",
               Kw(<<<<<<"ids">>, ids>>,
                    <<<<"expand", "reference", "names">>, expand_reference_names>>>>),
               LookupPlainRequest("syllabuses", ids, expand_reference_names))

get_syllabus_by_id ==
    /\ pc = "idle"
    /\ \E syllabus_id \in Ids, expand_reference_names \in Flags :
        Invoke("get_syllabus_by_id",
               Kw(<<<<<<"syllabus", "id">>, Str(syllabus_id)>>,
                    <<<<"expand", "reference", "names">>, expand_reference_names>>>>),
               ByIdPlainRequest("syllabuses", syllabus_id, expand_reference_names))

get_school_unit_offerings ==
    /\ pc = "idle"
    /\ \E kwargs \in KwargsOver(KwNames(mapped_get_school_unit_offerings) \cup ExtraNames) :
        Invoke("get_school_unit_offerings", kwargs, ListRequest(mapped_get_school_unit_offerings, "schoolUnitOfferings", kwargs))

lookup_school_unit_offerings ==
    /\ pc = "idle"
    /\ \E ids \in IdLists, expand \in ExpandLists, expand_reference_names \in Flags :
        Invoke("lookup_school_unit_offerings",
               Kw(<<<<<<"ids">>, ids>>,
                    <<<<"expand">>, expand>>,
                    <<<<"expand", "reference", "names">>, expand_reference_names>>>>),
               LookupExpandRequest("schoolUnitOfferings", ids, expand, expand_reference_names))

get_school_unit_offering_by_id ==
    /\ pc = "idle"
    /\ \E offering_id \in Ids, expand \in ExpandLists, expand_reference_names \in Flags :
        Invoke("get_school_unit_offering_by_id",
               Kw(<<<<<<"offering", "id">>, Str(offering_id)>>,
                    <<<<"expand">>, expand>>,
                    <<<<"expand", "reference", "names">>, expand_reference_names>>>>),
               ByIdExpandRequest("schoolUnitOfferings", offering_id, expand, expand_reference_names))

get_activities ==
    /\ pc = "idle"
    /\ \E kwargs \in KwargsOver(KwNames(mapped_get_activities) \cup ExtraNames) :
        Invoke("get_activities", kwargs, ListRequest(mapped_get_activities, "activities", kwargs))

lookup_activities ==
    /\ pc = "idle"
    /\ \E ids \in IdLists, expand \in ExpandLists, expand_reference_names \in Flags :
        Invoke("lookup_activities",
               Kw(<<<<<<"ids">>, ids>>,
                    <<<<"expand">>, expand>>,
                    <<<<"expand", "reference", "names">>, expand_reference_names>>>>),
               LookupExpandRequest("activities", ids, expand, expand_reference_names))

get_activity_by_id ==
    /\ pc = "idle"
    /\ \E activity_id \in Ids, expand \in ExpandLists, expand_reference_names \in Flags :
        Invoke("get_activity_by_id",
               Kw(<<<<<<"activity", "id">>, Str(activity_id)>>,
                    <<<<"expand">>, expand>>,
                    <<<<"expand", "reference", "names">>, expand_reference_names>>>>),
               ByIdExpandRequest("activities", activity_id, expand, expand_reference_names))

get_calendar_events ==
    /\ pc = "idle"
    /\ \E kwargs \in KwargsOver(KwNames(mapped_get_calendar_events) \cup ExtraNames) :
        Invoke("get_calendar_events", kwargs, ListRequest(mapped_get_calendar_events, "calendarEvents", kwargs))

lookup_calendar_events ==
    /\ pc = "idle"
    /\ \E ids \in IdLists, expand \in ExpandLists, expand_reference_names \in Flags :
        Invoke("lookup_calendar_events",
               Kw(<<<<<<"ids">>, ids>>,
                    <<<<"expand">>, expand>>,
                    <<<<"expand", "reference", "names">>, expand_reference_names>>>>),
               LookupExpandRequest("calendarEvents", ids, expand, expand_reference_names))

get_calendar_event_by_id ==
    /\ pc = "idle"
    /\ \E event_id \in Ids, expand \in ExpandLists, expand_reference_names \in Flags :
        Invoke("get_calendar_event_by_id",
               Kw(<<<<<<"event", "id">>, Str(event_id)>>,
                    <<<<"expand">>, expand>>,
                    <<<<"expand", "reference", "names">>, expand_reference_names>>>>),
               ByIdExpandRequest("calendarEvents", event_id, expand, expand_reference_names))

get_attendances ==
    /\ pc = "idle"
    /\ \E kwargs \in KwargsOver(KwNames(mapped_get_attendances) \cup ExtraNames) :
        Invoke("get_attendances", kwargs, ListRequest(mapped_get_attendances, "attendances", kwargs))

lookup_attendances ==
    /\ pc = "idle"
    /\ \E ids \in IdLists, expand \in ExpandLists, expand_reference_names \in Flags :
        Invoke("lookup_attendances",
               Kw(<<<<<<"ids">>, ids>>,
                    <<<<"expand">>, expand>>,
                    <<<<"expand", "reference", "names">>, expand_reference_names>>>>),
               LookupExpandRequest("attendances", ids, expand, expand_reference_names))

get_attendance_by_id ==
    /\ pc = "idle"
    /\ \E attendance_id \in Ids, expand \in ExpandLists, expand_reference_names \in Flags :
        Invoke("get_attendance_by_id",
               Kw(<<<<<<"attendance", "id">>, Str(attendance_id)>>,
                    <<<<"expand">>, expand>>,
                    <<<<"expand", "reference", "names">>, expand_reference_names>>>>),
               ByIdExpandRequest("attendances", attendance_id, expand, expand_reference_names))

delete_attendance ==
    /\ pc = "idle"
    /\ \E attendance_id \in Ids :
        Invoke("delete_attendance",
               Kw(<<<<<<"attendance", "id">>, Str(attendance_id)>>>>),
               DeleteRequest("attendances", attendance_id))

get_attendance_events ==
    /\ pc = "idle"
    /\ \E kwargs \in KwargsOver(KwNames(mapped_get_attendance_events) \cup ExtraNames) :
        Invoke("get_attendance_events", kwargs, ListRequest(mapped_get_attendance_events, "attendanceEvents", kwargs))

lookup_attendance_events ==
    /\ pc = "idle"
    /\ \E ids \in IdLists, expand \in ExpandLists, expand_reference_names \in Flags :
        Invoke("lookup_attendance_events",
               Kw(<<<<<<"ids">>, ids>>,
                    <<<<"expand">>, expand>>,
                    <<<<"expand", "reference", "names">>, expand_reference_names>>>>),
               LookupExpandRequest("attendanceEvents", ids, expand, expand_reference_names))

get_attendance_event_by_id ==
    /\ pc = "idle"
    /\ \E event_id \in Ids, expand \in ExpandLists, expand_reference_names \in Flags :
        Invoke("get_attendance_event_by_id",
               Kw(<<<<<<"event", "id">>, Str(event_id)>>,
                    <<<<"expand">>, expand>>,
                    <<<<"expand", "reference", "names">>, expand_reference_names>>>>),
               ByIdExpandRequest("attendanceEvents", event_id, expand, expand_reference_names))

get_attendance_schedules ==
    /\ pc = "idle"
    /\ \E kwargs \in KwargsOver(KwNames(mapped_get_attendance_schedules) \cup ExtraNames) :
        Invoke("get_attendance_schedules", kwargs, ListRequest(mapped_get_attendance_schedules, "attendanceSchedules", kwargs))

lookup_attendance_schedules ==
    /\ pc = "idle"
    /\ \E ids \in IdLists, expand \in ExpandLists, expand_reference_names \in Flags :
        Invoke("lookup_attendance_schedules",
               Kw(<<<<<<"ids">>, ids>>,
                    <<<<"expand">>, expand>>,
                    <<<<"expand", "reference", "names">>, expand_reference_names>>>>),
               LookupExpandRequest("attendanceSchedules", ids, expand, expand_reference_names))

get_attendance_schedule_by_id ==
    /\ pc = "idle"
    /\ \E schedule_id \in Ids, expand \in ExpandLists, expand_reference_names \in Flags :
        Invoke("get_attendance_schedule_by_id",
               Kw(<<<<<<"schedule", "id">>, Str(schedule_id)>>,
                    <<<<"expand">>, expand>>,
                    <<<<"expand", "reference", "names">>, expand_reference_names>>>>),
               ByIdExpandRequest("attendanceSchedules", schedule_id, expand, expand_reference_names))

get_grades ==
    /\ pc = "idle"
    /\ \E kwargs \in KwargsOver(KwNames(mapped_get_grades) \cup ExtraNames) :
        Invoke("get_grades", kwargs, ListRequest(mapped_get_grades, "grades", kwargs))

lookup_grades ==
    /\ pc = "idle"
    /\ \E ids \in IdLists, expand \in ExpandLists, expand_reference_names \in Flags :
        Invoke("lookup_grades",
               Kw(<<<<<<"ids">>, ids>>,
                    <<<<"expand">>, expand>>,
                    <<<<"expand", "reference", "names">>, expand_reference_names>>>>),
               LookupExpandRequest("grades", ids, expand, expand_reference_names))

get_grade_by_id ==
    /\ pc = "idle"
    /\ \E grade_id \in Ids, expand \in ExpandLists, expand_reference_names \in Flags :
        Invoke("get_grade_by_id",
               Kw(<<<<<<"grade", "id">>, Str(grade_id)>>,
                    <<<<"expand">>, expand>>,
                    <<<<"expand", "reference", "names">>, expand_reference_names>>>>),
               ByIdExpandRequest("grades", grade_id, expand, expand_reference_names))

get_aggregated_attendances ==
    /\ pc = "idle"
    /\ \E kwargs \in KwargsOver(KwNames(mapped_get_aggregated_attendances) \cup ExtraNames) :
        Invoke("get_aggregated_attendances", kwargs, ListRequest(mapped_get_aggregated_attendances, "aggregatedAttendance", kwargs))

lookup_aggregated_attendances ==
    /\ pc = "idle"
    /\ \E ids \in IdLists, expand \in ExpandLists, expand_reference_names \in Flags :
        Invoke("lookup_aggregated_attendances",
               Kw(<<<<<<"ids">>, ids>>,
                    <<<<"expand">>, expand>>,
                    <<<<"expand", "reference", "names">>, expand_reference_names>>>>),
               LookupExpandRequest("aggregatedAttendance", ids, expand, expand_reference_names))

get_aggregated_attendance_by_id ==
    /\ pc = "idle"
    /\ \E attendance_id \in Ids, expand \in ExpandLists, expand_reference_names \in Flags :
        Invoke("get_aggregated_attendance_by_id",
               Kw(<<<<<<"attendance", "id">>, Str(attendance_id)>>,
                    <<<<"expand">>, expand>>,
                    <<<<"expand", "reference", "names">>, expand_reference_names>>>>),
               ByIdExpandRequest("aggregatedAttendance", attendance_id, expand, expand_reference_names))

get_resources ==
    /\ pc = "idle"
    /\ \E kwargs \in KwargsOver(KwNames(mapped_get_resources) \cup ExtraNames) :
        Invoke("get_resources", kwargs, ListRequest(mapped_get_resources, "resources", kwargs))

lookup_resources ==
    /\ pc = "idle"
    /\ \E ids \in IdLists, expand_reference_names \in Flags :
        Invoke("lookup_resources",
               Kw(<<<<<<"ids">>, ids>>,
                    <<<<"expand", "reference", "names">>, expand_reference_names>>>>),
               LookupPlainRequest("resources", ids, expand_reference_names))

get_resource_by_id ==
    /\ pc = "idle"
    /\ \E resource_id \in Ids, expand_reference_names \in Flags :
        Invoke("get_resource_by_id",
               Kw(<<<<<<"resource", "id">>, Str(resource_id)>>,
                    <<<<"expand", "reference", "names">>, expand_reference_names>>>>),
               ByIdPlainRequest("resources", resource_id, expand_reference_names))

get_rooms ==
    /\ pc = "idle"
    /\ \E kwargs \in KwargsOver(KwNames(mapped_get_rooms) \cup ExtraNames) :
        Invoke("get_rooms", kwargs, ListRequest(mapped_get_rooms, "rooms", kwargs))

lookup_rooms ==
    /\ pc = "idle"
    /\ \E ids \in IdLists, expand_reference_names \in Flags :
        Invoke("lookup_rooms",
               Kw(<<<<<<"ids">>, ids>>,
                    <<<<"expand", "reference", "names">>, expand_reference_names>>>>),
               LookupPlainRequest("rooms", ids, expand_reference_names))

get_room_by_id ==
    /\ pc = "idle"
    /\ \E room_id \in Ids, expand_reference_names \in Flags :
        Invoke("get_room_by_id",
               Kw(<<<<<<"room", "id">>, Str(room_id)>>,
                    <<<<"expand", "reference", "names">>, expand_reference_names>>>>),
               ByIdPlainRequest("rooms", room_id, expand_reference_names))

get_subscriptions ==
    /\ pc = "idle"
    /\ \E kwargs \in KwargsOver(KwNames(mapped_get_subscriptions) \cup ExtraNames) :
        Invoke("get_subscriptions", kwargs, ListRequest(mapped_get_subscriptions, "subscriptions", kwargs))

create_subscription ==
    /\ pc = "idle"
    /\ \E name \in Names, target \in Targets, resource_types \in ResourceTypeLists :
        Invoke("create_subscription",
               Kw(<<<<<<"name">>, name>>,
                    <<<<"target">>, target>>,
                    <<<<"resource", "types">>, resource_types>>>>),
               create_subscription_request(name, target, resource_types))

delete_subscription ==
    /\ pc = "idle"
    /\ \E subscription_id \in Ids :
        Invoke("delete_subscription",
               Kw(<<<<<<"subscription", "id">>, Str(subscription_id)>>>>),
               DeleteRequest("subscriptions", subscription_id))

get_subscription_by_id ==
    /\ pc = "idle"
    /\ \E subscription_id \in Ids :
        Invoke("get_subscription_by_id",
               Kw(<<<<<<"subscription", "id">>, Str(subscription_id)>>>>),
               get_subscription_by_id_request(subscription_id))

update_subscription ==
    /\ pc = "idle"
    /\ \E subscription_id \in Ids, expires \in Timestamps :
        Invoke("update_subscription",
               Kw(<<<<<<"subscription", "id">>, Str(subscription_id)>>,
                    <<<<"expires">>, expires>>>>),
               update_subscription_request(subscription_id, expires))

get_deleted_entities ==
    /\ pc = "idle"
    /\ \E entities \in EntityLists, meta_modified_after \in OptTimestamps :
        Invoke("get_deleted_entities",
               Kw(<<<<<<"entities">>, entities>>,
                    <<<<"meta", "modified", "after">>, meta_modified_after>>>>),
               get_deleted_entities_request(entities, meta_modified_after))

get_log ==
    /\ pc = "idle"
    /\ \E kwargs \in KwargsOver(KwNames(mapped_get_log) \cup ExtraNames) :
        Invoke("get_log", kwargs, ListRequest(mapped_get_log, "log", kwargs))

get_statistics ==
    /\ pc = "idle"
    /\ \E kwargs \in KwargsOver(KwNames(mapped_get_statistics) \cup ExtraNames) :
        Invoke("get_statistics", kwargs, ListRequest(mapped_get_statistics, "statistics", kwargs))

\* Mutant: _request keeps the status of the last response in self.headers.
TransportAnswers_remembers ==
    /\ pc = "sent"
    /\ \E status \in Statuses, text \in BodyTexts :
         /\ response' = HttpResponse(status, text)
         /\ outcome' = RequestOutcome(HttpResponse(status, text))
         /\ client' = [client EXCEPT !.headers = Put(client.headers, "X-Last-Status", <<text>>)]
         /\ page_token_seen' = (page_token_seen \/ text = "{\"pageToken\":\"t1\"}")
    /\ pc' = "done"
    /\ frame' = NoFrame
    /\ UNCHANGED <<ctor, warnings, invoked, attempts, threads>>

\* The transport answers with an HTTP response; _request returns or raises.
TransportAnswers ==
    /\ pc = "sent"
    /\ \E status \in Statuses, text \in BodyTexts :
         /\ response' = HttpResponse(status, text)
         /\ outcome' = RequestOutcome(HttpResponse(status, text))
         /\ page_token_seen' = (page_token_seen \/ text = "{\"pageToken\":\"t1\"}")
    /\ pc' = "done"
    /\ frame' = NoFrame
    /\ UNCHANGED <<ctor, client, warnings, invoked, attempts, threads>>

\* requests.request raises (no connection, or no answer within timeout=
\* seconds, which takes a timeout to be set); _request re-raises.
TransportFails ==
    /\ pc = "sent"
    /\ \E exc \in TransportErrors :
         /\ exc = "Timeout" => frame.request.timeout > 0
         /\ response' = TransportFailure(exc)
         /\ outcome' = RequestOutcome(TransportFailure(exc))
    /\ pc' = "done"
    /\ frame' = NoFrame
    /\ UNCHANGED <<ctor, client, warnings, invoked, attempts, page_token_seen, threads>>

\* The caller has the result or the exception and goes on to its next call.
Continue ==
    /\ pc = "done"
    /\ pc' = "idle"
    /\ invoked' = ""
    /\ attempts' = 0
    /\ response' = NoResponse
    /\ outcome' = NoOutcome
    /\ UNCHANGED <<ctor, client, warnings, frame, page_token_seen, threads>>

Methods ==
    \/ get_organisations
    \/ lookup_organisations
    \/ get_organisation_by_id
    \/ get_persons
    \/ lookup_persons
    \/ get_person_by_id
    \/ get_placements
    \/ lookup_placements
    \/ get_placement_by_id
    \/ get_duties
    \/ lookup_duties
    \/ get_duty_by_id
    \/ get_groups
    \/ lookup_groups
    \/ get_group_by_id
    \/ get_programmes
    \/ lookup_programmes
    \/ get_programme_by_id
    \/ get_study_plans
    \/ lookup_study_plans
    \/ get_study_plan_by_id
    \/ get_syllabuses
    \/ lookup_syllabuses
    \/ get_syllabus_by_id
    \/ get_school_unit_offerings
    \/ lookup_school_unit_offerings
    \/ get_school_unit_offering_by_id
    \/ get_activities
    \/ lookup_activities
    \/ get_activity_by_id
    \/ get_calendar_events
    \/ lookup_calendar_events
    \/ get_calendar_event_by_id
    \/ get_attendances
    \/ lookup_attendances
    \/ get_attendance_by_id
    \/ delete_attendance
    \/ get_attendance_events
    \/ lookup_attendance_events
    \/ get_attendance_event_by_id
    \/ get_attendance_schedules
    \/ lookup_attendance_schedules
    \/ get_attendance_schedule_by_id
    \/ get_grades
    \/ lookup_grades
    \/ get_grade_by_id
    \/ get_aggregated_attendances
    \/ lookup_aggregated_attendances
    \/ get_aggregated_attendance_by_id
    \/ get_resources
    \/ lookup_resources
    \/ get_resource_by_id
    \/ get_rooms
    \/ lookup_rooms
    \/ get_room_by_id
    \/ get_subscriptions
    \/ create_subscription
    \/ delete_subscription
    \/ get_subscription_by_id
    \/ update_subscription
    \/ get_deleted_entities
    \/ get_log
    \/ get_statistics
Next == Construct \/ Methods \/ TransportAnswers \/ TransportFails \/ Continue

Spec == Init /\ [][Next]_vars

\* ------------------------------------------------------- concurrent calls
\* Several threads call methods of one client.  A thread runs its method up
\* to the call of _request (the query and body are locals of the method),
\* then _request reads self.base_url and self.headers and blocks in
\* requests.request, then the transport answers or fails; the steps of the
\* threads interleave.
CallMenu ==
    {[name |-> "get_persons", args |-> kw, req |-> ListRequest(mapped_get_persons, "persons", kw)] :
        kw \in {EmptyDict, Kw(<<<<<<"page", "token">>, Str("2024-01-01")>>>>)}}
    \cup {[name |-> "lookup_persons",
           args |-> Kw(<<<<<<"ids">>, ids>>, <<<<"civic", "nos">>, PyNone>>,
                        <<<<"expand">>, PyNone>>, <<<<"expand", "reference", "names">>, PyFalse>>>>),
           req |-> lookup_persons_request(ids, PyNone, PyNone, PyFalse)] :
        ids \in {List(<<Str("p1")>>), List(<<Str("p2")>>)}}
    \cup {[name |-> "delete_attendance",
           args |-> Kw(<<<<<<"attendance", "id">>, Str(id)>>>>),
           req |-> DeleteRequest("attendances", id)] : id \in Ids}
ConcResponses ==
    {HttpResponse(200, "null"), HttpResponse(204, ""), HttpResponse(404, "Not Found"),
     HttpResponse(200, "{\"pageToken\":\"t1\"}")}

\* ------------------------------------------------- calls and passing time
\* One caller making the calls of the menu one after the other.
CallFromMenu ==
    /\ pc = "idle"
    /\ \E c \in CallMenu : Invoke(c.name, c.args, c.req)

\* The timeout of requests.request: a call that is not answered is ended by
\* Timeout once the timeout= seconds are over.
TransportTimesOut == TransportFails /\ response' = TransportFailure("Timeout")

NextLive ==
    \/ Construct
    \/ CallFromMenu
    \/ TransportAnswers
    \/ TransportFails
    \/ Continue

\* The calls with the passing of time: the timeout fires unless the
\* transport answers or fails first.
SpecLive == Init /\ [][NextLive]_vars /\ WF_vars(TransportTimesOut)

SeqVarsUnchanged ==
    UNCHANGED <<ctor, client, warnings, pc, invoked, frame, attempts, response, outcome,
                page_token_seen>>

\* Thread t calls a public method, which builds the arguments of _request.
T_Build(t) ==
    /\ pc = "idle" /\ threads[t].pc = "idle"
    /\ \E c \in CallMenu :
         threads' = [threads EXCEPT ![t] =
                        [IdleThread EXCEPT !.pc = "built", !.name = c.name,
                                           !.args = c.args, !.req = c.req]]
    /\ SeqVarsUnchanged

\* Mutant: the arguments of _request go through a buffer shared by the
\* threads, so a thread sends what the other thread built.
T_Send_shared(t) ==
    /\ threads[t].pc = "built"
    /\ \E u \in Threads :
         /\ threads[u].pc = "built"
         /\ threads' = [threads EXCEPT ![t].pc = "sent",
                                       ![t].request = TransportRequest(client, threads[u].req)]
    /\ SeqVarsUnchanged

\* _request of thread t joins the URL, reads self.headers and calls requests.request.
T_Send(t) ==
    /\ threads[t].pc = "built"
    /\ threads' = [threads EXCEPT ![t].pc = "sent",
                                  ![t].request = TransportRequest(client, threads[t].req)]
    /\ SeqVarsUnchanged

\* The transport answers thread t; its _request returns or raises.
T_Answer(t) ==
    /\ threads[t].pc = "sent"
    /\ \E r \in ConcResponses :
         threads' = [threads EXCEPT ![t] =
                        [IdleThread EXCEPT !.pc = "done", !.name = threads[t].name,
                                           !.response = r, !.outcome = RequestOutcome(r)]]
    /\ SeqVarsUnchanged

\* requests.request of thread t raises; its _request re-raises.
T_Fail(t) ==
    /\ threads[t].pc = "sent"
    /\ \E exc \in TransportErrors :
         /\ exc = "Timeout" => threads[t].request.timeout > 0
         /\ threads' = [threads EXCEPT ![t] =
                        [IdleThread EXCEPT !.pc = "done", !.name = threads[t].name,
                                           !.response = TransportFailure(exc),
                                           !.outcome = RequestOutcome(TransportFailure(exc))]]
    /\ SeqVarsUnchanged

\* Thread t has its result and goes on.
T_Continue(t) ==
    /\ threads[t].pc = "done"
    /\ threads' = [threads EXCEPT ![t] = IdleThread]
    /\ SeqVarsUnchanged

NextConc ==
    \/ Construct
    \/ \E t \in Threads : T_Build(t)
    \/ \E t \in Threads : T_Send(t)
    \/ \E t \in Threads : T_Answer(t)
    \/ \E t \in Threads : T_Fail(t)
    \/ \E t \in Threads : T_Continue(t)

SpecConc == Init /\ [][NextConc]_vars
\* ------------------------------------------------------------ properties
\* The filter table of each list method.
ListTable ==
    [ get_organisations |-> mapped_get_organisations,
      get_persons |-> mapped_get_persons,
      get_placements |-> mapped_get_placements,
      get_duties |-> mapped_get_duties,
      get_groups |-> mapped_get_groups,
      get_programmes |-> mapped_get_programmes,
      get_study_plans |-> mapped_get_study_plans,
      get_syllabuses |-> mapped_get_syllabuses,
      get_school_unit_offerings |-> mapped_get_school_unit_offerings,
      get_activities |-> mapped_get_activities,
      get_calendar_events |-> mapped_get_calendar_events,
      get_attendances |-> mapped_get_attendances,
      get_attendance_events |-> mapped_get_attendance_events,
      get_attendance_schedules |-> mapped_get_attendance_schedules,
      get_grades |-> mapped_get_grades,
      get_aggregated_attendances |-> mapped_get_aggregated_attendances,
      get_resources |-> mapped_get_resources,
      get_rooms |-> mapped_get_rooms,
      get_subscriptions |-> mapped_get_subscriptions,
      get_log |-> mapped_get_log,
      get_statistics |-> mapped_get_statistics ]
ListMethods == DOMAIN ListTable

\* ------------------------------------------- list calls with false values
\* The path of each list method.
ListResource ==
    [
      get_organisations |-> "organisations",
      get_persons |-> "persons",
      get_placements |-> "placements",
      get_duties |-> "duties",
      get_groups |-> "groups",
      get_programmes |-> "programmes",
      get_study_plans |-> "studyplans",
      get_syllabuses |-> "syllabuses",
      get_school_unit_offerings |-> "schoolUnitOfferings",
      get_activities |-> "activities",
      get_calendar_events |-> "calendarEvents",
      get_attendances |-> "attendances",
      get_attendance_events |-> "attendanceEvents",
      get_attendance_schedules |-> "attendanceSchedules",
      get_grades |-> "grades",
      get_aggregated_attendances |-> "aggregatedAttendance",
      get_resources |-> "resources",
      get_rooms |-> "rooms",
      get_subscriptions |-> "subscriptions",
      get_log |-> "log",
      get_statistics |-> "statistics" ]

\* Values that are false in Python's truth value testing but are not None.
FalsyValues == {PyFalse, PyInt("0"), Str(""), List(<<>>)}

\* Any list method called with one of its filters, given a false value or None.
ListCallFalsy ==
    /\ pc = "idle"
    /\ \E m \in ListMethods :
         \E n \in KwNames(ListTable[m]), v \in FalsyValues \cup {PyNone} :
            Invoke(m, Kw(<<<<n, v>>>>),
                   ListRequest(ListTable[m], ListResource[m], Kw(<<<<n, v>>>>)))

NextFalsy ==
    \/ Construct
    \/ ListCallFalsy
    \/ TransportAnswers
    \/ TransportFails
    \/ Continue

SpecFalsy == Init /\ [][NextFalsy]_vars
LookupMethods ==
    { "lookup_organisations",
      "lookup_persons",
      "lookup_placements",
      "lookup_duties",
      "lookup_groups",
      "lookup_programmes",
      "lookup_study_plans",
      "lookup_syllabuses",
      "lookup_school_unit_offerings",
      "lookup_activities",
      "lookup_calendar_events",
      "lookup_attendances",
      "lookup_attendance_events",
      "lookup_attendance_schedules",
      "lookup_grades",
      "lookup_aggregated_attendances",
      "lookup_resources",
      "lookup_rooms" }

Sent == pc = "sent"
Done == pc = "done"
ListSent == pc = "sent" /\ invoked \in ListMethods

\* Keyword names of the arguments of the lookup and write methods.
A_ids == <<"ids">>
A_civic_nos == <<"civic", "nos">>
A_school_unit_codes == <<"school", "unit", "codes">>
A_organisation_codes == <<"organisation", "codes">>
A_expand == <<"expand">>
A_expand_reference_names == <<"expand", "reference", "names">>
A_name == <<"name">>
A_target == <<"target">>
A_resource_types == <<"resource", "types">>

\* C1: in every list call, a filter that is not given, or is given as None,
\* is no key of the query handed to the HTTP request, and no key of the
\* query is bound to None.
C1_NoneNeverInQuery ==
    ListSent =>
        LET table == ListTable[invoked]
            query == frame.request.params
        IN  /\ query.given
            /\ \A i \in DOMAIN table :
                 DictGet(frame.args, table[i][2]) = PyNone => table[i][1] \notin DOMAIN query.d
            /\ \A k \in DOMAIN query.d : query.d[k] # PyNone

\* A list call that passes a recognised filter explicitly as None.
C1_Witness ==
    /\ ListSent
    /\ \E n \in DOMAIN frame.args :
         n \in KwNames(ListTable[invoked]) /\ frame.args[n] = PyNone

\* C2: in every lookup call the identifier lists are keys of the JSON body
\* only and expand / expandReferenceNames are keys of the query only, each
\* carrying the list or flag given; lookup_persons(ids=[p1,p2],
\* expand=[duties]) sends body {ids: [p1,p2]} and query {expand: [duties]}.
C2_LookupIdsInBodyExpandInQuery ==
    (pc = "sent" /\ invoked \in LookupMethods) =>
        LET query == frame.request.params
            body == frame.request.json
            args == frame.args
            idKeys == {K_ids, K_civicNos, K_schoolUnitCodes, K_organisationCodes}
            flagKeys == {K_expand, K_expandReferenceNames}
            wire == [n \in {A_ids, A_civic_nos, A_school_unit_codes, A_organisation_codes,
                            A_expand, A_expand_reference_names} |->
                        CASE n = A_ids -> K_ids
                          [] n = A_civic_nos -> K_civicNos
                          [] n = A_school_unit_codes -> K_schoolUnitCodes
                          [] n = A_organisation_codes -> K_organisationCodes
                          [] n = A_expand -> K_expand
                          [] OTHER -> K_expandReferenceNames]
        IN  /\ query.given /\ body.given
            /\ DOMAIN body.d \subseteq idKeys
            /\ DOMAIN query.d \subseteq flagKeys
            /\ \A n \in DOMAIN args :
                 Truthy(args[n]) =>
                    IF wire[n] \in idKeys
                    THEN wire[n] \in DOMAIN body.d /\ body.d[wire[n]] = args[n]
                    ELSE wire[n] \in DOMAIN query.d /\ query.d[wire[n]] = args[n]
            /\ (/\ invoked = "lookup_persons"
                /\ args[A_ids] = List(<<Str("p1"), Str("p2")>>)
                /\ args[A_civic_nos] = PyNone
                /\ args[A_expand] = List(<<Str("duties")>>)
                /\ args[A_expand_reference_names] = PyFalse)
               => /\ body.d = Put(EmptyDict, K_ids, List(<<Str("p1"), Str("p2")>>))
                  /\ query.d = Put(EmptyDict, K_expand, List(<<Str("duties")>>))

\* lookup_persons(ids=[p1,p2], expand=[duties]) has handed over its request.
C2_Witness ==
    /\ pc = "sent" /\ invoked = "lookup_persons"
    /\ frame.args[A_ids] = List(<<Str("p1"), Str("p2")>>)
    /\ frame.args[A_expand] = List(<<Str("duties")>>)
    /\ K_ids \in DOMAIN frame.request.json.d
    /\ K_expand \in DOMAIN frame.request.params.d

\* C3: a list call given a keyword that is not in the method's filter table
\* never gets as far as the network call (it fails with a validation error
\* first).
C3_UnknownFilterRejected ==
    ListSent => DOMAIN frame.args \subseteq KwNames(ListTable[invoked])

\* C4: the result of a call answered with 204 differs from every result a
\* 2xx response with a JSON body yields, the JSON payload null included.
C4_NoContentDistinct ==
    (Done /\ response.kind = "http" /\ response.status = 204) =>
        \A text \in JsonTexts : RequestOutcome(HttpResponse(200, text)) # outcome

\* C5: a call answered with a 4xx/5xx status raises the HTTP error of that
\* response, which carries the status and the body (decodable when the body
\* is JSON, the raw text otherwise); a body that is not JSON does not
\* replace it by a decode error.
C5_ErrorCarriesStatusAndBody ==
    (Done /\ response.kind = "http" /\ RaisesForStatus(response.status)) =>
        /\ outcome.kind = "raise"
        /\ outcome.exc = "HTTPError"
        /\ outcome.response.status = response.status
        /\ outcome.response.text = response.text
        /\ (response.status = 404 /\ response.text = "{\"error\":\"not found\"}")
             => JsonLoads(outcome.response.text) = Dict1("error", Str("not found"))

\* A 404 whose body is not JSON has been raised to the caller.
C5_Witness ==
    /\ Done /\ response.kind = "http"
    /\ response.status = 404 /\ response.text = "Not Found"
    /\ outcome.kind = "raise"

\* C6: the URL requested is the base URL with the method path appended to
\* the base path.
C6_BasePathPreserved ==
    Sent =>
        frame.request.url =
            [client.base_url EXCEPT !.path = client.base_url.path \o frame.path]

\* C7: a finished call has made exactly one call of the transport, and it
\* raised whenever the transport failed, the status was 4xx/5xx or the body
\* of a 2xx (not 204) answer could not be decoded.
C7_OneRoundTripNoRecovery ==
    /\ attempts <= 1
    /\ Sent => attempts = 1
    /\ Done =>
         /\ attempts = 1
         /\ outcome.kind \in {"return", "raise"}
         /\ (\/ response.kind = "fail"
             \/ RaisesForStatus(response.status)
             \/ (response.status # 204 /\ response.text \notin JsonTexts))
              => outcome.kind = "raise"
         /\ response.kind = "fail" => outcome.exc = response.exc

\* A call whose transport failed has raised after its one attempt.
C7_Witness ==
    /\ Done /\ response.kind = "fail" /\ attempts = 1 /\ outcome.kind = "raise"

\* C8: create_subscription sends POST /subscriptions with no query and a
\* body of exactly name, target and resourceTypes, resourceTypes being one
\* {resource: rt} per given resource type, in the given order.
C8_CreateSubscriptionBody ==
    (pc = "sent" /\ invoked = "create_subscription") =>
        LET body == frame.request.json
            given == frame.args[A_resource_types]
        IN  /\ frame.request.method = "POST"
            /\ frame.path = <<"subscriptions">>
            /\ ~frame.request.params.given
            /\ body.given
            /\ DOMAIN body.d = {K_name, K_target, K_resourceTypes}
            /\ body.d[K_name] = frame.args[A_name]
            /\ body.d[K_target] = frame.args[A_target]
            /\ body.d[K_resourceTypes].t = "list"
            /\ Len(body.d[K_resourceTypes].l) = Len(given.l)
            /\ \A i \in 1..Len(given.l) :
                 body.d[K_resourceTypes].l[i] =
                    [t |-> "dict", s |-> "", l |-> <<Str("resource"), given.l[i]>>]
            /\ given = List(<<Str("Person"), Str("Activity")>>)
                 => body.d[K_resourceTypes].l =
                       << [t |-> "dict", s |-> "", l |-> <<Str("resource"), Str("Person")>>],
                          [t |-> "dict", s |-> "", l |-> <<Str("resource"), Str("Activity")>>] >>

\* create_subscription(resource_types=[Person, Activity]) has handed over its request.
C8_Witness ==
    /\ pc = "sent" /\ invoked = "create_subscription"
    /\ frame.args[A_resource_types] = List(<<Str("Person"), Str("Activity")>>)

\* The words of a wire key, segment after segment.
RECURSIVE Flatten(_)
Flatten(w) == IF w = <<>> THEN <<>> ELSE Head(w) \o Flatten(Tail(w))
EndsWith(n, suffix) ==
    Len(n) > Len(suffix) /\ SubSeq(n, Len(n) - Len(suffix) + 1, Len(n)) = suffix
\* The keyword name is a range filter x_on_or_before / x_on_or_after, or a
\* meta timestamp filter.
IsOnOr(n) == EndsWith(n, <<"on", "or", "before">>) \/ EndsWith(n, <<"on", "or", "after">>)
IsMeta(n) ==
    n \in {<<"meta", c, b>> : c \in {"created", "modified"}, b \in {"before", "after"}}
\* The wire key w follows the convention for the keyword name n:
\* X.onOrBefore / X.onOrAfter with X the wire form of x, meta.<c>.<b>.
FollowsConvention(w, n) ==
    /\ Flatten(w) = n
    /\ IsOnOr(n) => /\ w[Len(w)] = SubSeq(n, Len(n) - 2, Len(n))
                    /\ Len(w) >= 2
    /\ IsMeta(n) => w = <<<<n[1]>>, <<n[2]>>, <<n[3]>>>>

\* C9: on every list method a given range filter x_on_or_before /
\* x_on_or_after is sent under X.onOrBefore / X.onOrAfter and a given
\* meta_created/modified_before/after under meta.created/modified.before/after,
\* with the value given; a call given only start_date_on_or_before=v sends
\* exactly startDate.onOrBefore=v.
C9_RangeConvention ==
    ListSent =>
        LET table == ListTable[invoked]
            query == frame.request.params.d
            args == frame.args
        IN  /\ \A n \in DOMAIN args :
                 (n \in KwNames(table) /\ args[n] # PyNone /\ (IsOnOr(n) \/ IsMeta(n))) =>
                    \E w \in DOMAIN query : FollowsConvention(w, n) /\ query[w] = args[n]
            /\ \A w \in DOMAIN query :
                 \A i \in DOMAIN table :
                    (table[i][1] = w /\ (IsOnOr(table[i][2]) \/ IsMeta(table[i][2])))
                       => FollowsConvention(w, table[i][2])
            /\ (/\ DOMAIN args = {<<"start", "date", "on", "or", "before">>}
                /\ <<"start", "date", "on", "or", "before">> \in KwNames(table)
                /\ args[<<"start", "date", "on", "or", "before">>] # PyNone)
               => query = Put(EmptyDict, <<<<"start", "date">>, <<"on", "or", "before">>>>,
                              args[<<"start", "date", "on", "or", "before">>])

\* A list call given only start_date_on_or_before has handed over its request.
C9_Witness ==
    /\ ListSent
    /\ DOMAIN frame.args = {<<"start", "date", "on", "or", "before">>}
    /\ frame.args[<<"start", "date", "on", "or", "before">>] = Str("2024-01-01")
    /\ DOMAIN frame.request.params.d = {<<<<"start", "date">>, <<"on", "or", "before">>>>}

\* C10: every request carries the headers of the client: Content-Type and
\* Accept application/json, and Authorization: Bearer <token> exactly when a
\* token was given at construction; a client without token can still call.
C10_HeadersOnEveryRequest ==
    /\ Sent =>
         LET h == frame.request.headers
         IN  /\ h = client.headers
             /\ "Content-Type" \in DOMAIN h /\ h["Content-Type"] = <<"application/json">>
             /\ "Accept" \in DOMAIN h /\ h["Accept"] = <<"application/json">>
             /\ ("Authorization" \in DOMAIN h) <=> Truthy(ctor.auth_token)
             /\ Truthy(ctor.auth_token) => h["Authorization"] = <<"Bearer", ctor.auth_token.s>>
             /\ DOMAIN h \subseteq {"Content-Type", "Accept", "Authorization"}
    /\ (pc = "idle" /\ ~Truthy(ctor.auth_token)) => ENABLED get_subscriptions

\* A client constructed without token has handed a request to the transport.
C10_Witness ==
    /\ Sent /\ ctor.auth_token = PyNone
    /\ "Authorization" \notin DOMAIN frame.request.headers

\* The headers __init__ builds for a token.
ExpectedHeaders(auth_token) ==
    [h \in {"Content-Type", "Accept"} \cup (IF Truthy(auth_token) THEN {"Authorization"} ELSE {}) |->
        IF h = "Authorization" THEN <<"Bearer", auth_token.s>> ELSE <<"application/json">>]

\* C11: once constructed, the client object stays what the constructor made
\* of its arguments, through every call, returned or raised; the URL and the
\* headers of a request follow from the constructor arguments and the path
\* of the call alone.
C11_ClientStateless ==
    /\ pc # "new" =>
         /\ client.base_url = ctor.base_url
         /\ client.headers = ExpectedHeaders(ctor.auth_token)
    /\ Sent =>
         /\ frame.request.headers = ExpectedHeaders(ctor.auth_token)
         /\ frame.request.url.scheme = ctor.base_url.scheme
         /\ frame.request.url.netloc = ctor.base_url.netloc
         /\ frame.request.url.path = frame.path
         /\ frame.request.timeout = 30

\* A call that raised is over and the client is still there.
C11_Witness ==
    /\ Done /\ outcome.kind = "raise" /\ response.kind = "http"
    /\ client.headers = ExpectedHeaders(ctor.auth_token)

A_page_token == <<"page", "token">>
K_pageToken == <<<<"page", "token">>>>

\* C12: after a page token went through the client (given to an earlier list
\* call, or contained in an earlier response), a list call made without
\* page_token sends no pageToken key.
C12_PageTokenNotRetained ==
    (ListSent /\ page_token_seen /\ DictGet(frame.args, A_page_token) = PyNone) =>
        K_pageToken \notin DOMAIN frame.request.params.d

\* A list call without page_token, made after a page token was seen.
C12_Witness ==
    /\ ListSent /\ page_token_seen
    /\ A_page_token \notin DOMAIN frame.args
    /\ frame.request.params.given

\* What a call of the menu hands to _request when it runs alone.
AloneReq(name, args) == (CHOOSE c \in CallMenu : c.name = name /\ c.args = args).req

\* C13: under every interleaving of the calls of the threads, the request of
\* each call (method, URL, query, body, headers) is the one the call makes
\* when it runs alone, its result is the one _request gives for its own
\* answer, and the client object is untouched.
C13_NoInterference ==
    /\ pc # "new" =>
         /\ client.base_url = ctor.base_url
         /\ client.headers = ExpectedHeaders(ctor.auth_token)
    /\ \A t \in Threads :
         LET th == threads[t]
         IN  /\ th.pc \in {"built", "sent"} => th.req = AloneReq(th.name, th.args)
             /\ th.pc = "sent" =>
                  LET alone == AloneReq(th.name, th.args)
                  IN  /\ th.request.method = alone.method
                      /\ th.request.url = [ctor.base_url EXCEPT !.path = alone.path]
                      /\ th.request.params = alone.params
                      /\ th.request.json = alone.json_data
                      /\ th.request.headers = ExpectedHeaders(ctor.auth_token)
             /\ th.pc = "done" =>
                  /\ th.outcome.kind \in {"return", "raise"}
                  /\ th.response.kind = "fail" => th.outcome.exc = th.response.exc
                  /\ (th.response.kind = "http" /\ th.response.status = 404)
                       => th.outcome.response = th.response
                  /\ th.response = HttpResponse(200, "{\"pageToken\":\"t1\"}")
                       => th.outcome.value = Dict1("pageToken", Str("t1"))

\* Two threads are blocked in requests.request with different requests.
C13_Witness ==
    /\ threads[1].pc = "sent" /\ threads[2].pc = "sent"
    /\ threads[1].request # threads[2].request

\* C14: a failure of the transport raises the transport's own exception,
\* which is not the HTTPError raised for a 4xx/5xx answer and carries no
\* response; a 2xx answer other than 204 whose body is not JSON raises the
\* decode error, which is neither of the two, and returns nothing.
C14_ErrorsTypedAndDistinct ==
    Done =>
        /\ response.kind = "fail" =>
             /\ outcome.kind = "raise"
             /\ outcome.exc = response.exc
             /\ outcome.exc \in TransportErrors
             /\ outcome.exc \notin {"HTTPError", "JSONDecodeError"}
             /\ outcome.response = NoResponse
        /\ (response.kind = "http" /\ RaisesForStatus(response.status)) =>
             /\ outcome.kind = "raise"
             /\ outcome.exc = "HTTPError"
             /\ outcome.exc \notin TransportErrors
        /\ (response.kind = "http" /\ ~RaisesForStatus(response.status)
               /\ response.status # 204 /\ response.text \notin JsonTexts) =>
             /\ outcome.kind = "raise"
             /\ outcome.exc = "JSONDecodeError"
             /\ outcome.exc \notin TransportErrors \cup {"HTTPError"}

\* A 200 answer with a body that is not JSON has raised the decode error.
C14_Witness ==
    /\ Done /\ response = HttpResponse(200, "Not Found")
    /\ outcome.kind = "raise" /\ outcome.exc = "JSONDecodeError"

\* C15: a call answered with a 2xx status other than 204 and a JSON body
\* returns the decoded body itself: null gives None, an object gives the dict
\* with the same key and value, and nothing is printed or raised.
C15_ReturnsParsedBody ==
    (Done /\ response.kind = "http" /\ ~RaisesForStatus(response.status)
       /\ response.status # 204 /\ response.text \in JsonTexts) =>
        /\ outcome.kind = "return"
        /\ outcome.exc = "" /\ outcome.printed = <<>>
        /\ response.text = "null" => outcome.value = PyNone
        /\ response.text = "{\"error\":\"not found\"}"
             => outcome.value = Dict1("error", Str("not found"))
        /\ response.text = "{\"pageToken\":\"t1\"}"
             => outcome.value = Dict1("pageToken", Str("t1"))

\* A 201 answer with a JSON object has been returned to the caller.
C15_Witness ==
    /\ Done /\ response = HttpResponse(201, "{\"pageToken\":\"t1\"}")
    /\ outcome.kind = "return" /\ outcome.value.t = "dict"

\* C16: the constructor called with an empty or missing base URL raises
\* ValueError and leaves no client, so every request goes to a non-empty
\* base URL.
C16_EmptyBaseURLRejected ==
    /\ (invoked = "__init__" /\ ctor.base_url = EmptyURL) =>
         /\ outcome.kind = "raise" /\ outcome.exc = "ValueError"
         /\ pc = "new"
         /\ client = NoClient
    /\ pc # "new" => client.base_url # EmptyURL
    /\ Sent => frame.request.url.netloc # ""

\* The constructor was called with an empty base URL and raised.
C16_Witness ==
    /\ invoked = "__init__" /\ ctor.base_url = EmptyURL
    /\ outcome.exc = "ValueError" /\ pc = "new"

\* C17: the constructor called with a non-empty base URL returns a client
\* whose base URL is the one given; a scheme other than https and a missing
\* token each give a warning and nothing else.
C17_ConstructionOnlyWarns ==
    (invoked = "__init__" /\ ctor.base_url # EmptyURL) =>
        /\ pc = "idle"
        /\ outcome.kind # "raise"
        /\ client.base_url = ctor.base_url
        /\ ("no_https" \in warnings) <=> (ctor.base_url.scheme # "https")
        /\ ("no_token" \in warnings) <=> ~Truthy(ctor.auth_token)
        /\ warnings \subseteq {"no_https", "no_token"}

\* A client was built from a plain http base URL and no token.
C17_Witness ==
    /\ invoked = "__init__" /\ pc = "idle"
    /\ ctor.base_url.scheme = "http" /\ ctor.auth_token = PyNone
    /\ warnings = {"no_https", "no_token"}

\* C18: a lookup call reaches the network only when one of its identifier
\* lists (ids, civic_nos, school_unit_codes, organisation_codes) was given
\* and is not empty; without one the call fails before any request.
C18_LookupRequiresIdentifier ==
    (Sent /\ invoked \in LookupMethods) =>
        \E a \in {A_ids, A_civic_nos, A_school_unit_codes, A_organisation_codes} :
            Truthy(DictGet(frame.args, a))

A_sortkey == <<"sortkey">>
A_limit == <<"limit">>
K_sortkey == <<<<"sortkey">>>>
K_limit == <<<<"limit">>>>

\* C19: on every list method whose query can carry pageToken or limit, a
\* given sortkey, limit and page_token are each sent, under sortkey, limit
\* and pageToken, with the value given.
C19_PagingFieldsUniform ==
    ListSent =>
        LET table == ListTable[invoked]
            query == frame.request.params.d
            args == frame.args
        IN  (K_pageToken \in WireKeys(table) \/ K_limit \in WireKeys(table)) =>
                \A f \in {<<A_sortkey, K_sortkey>>, <<A_limit, K_limit>>,
                           <<A_page_token, K_pageToken>>} :
                    DictGet(args, f[1]) # PyNone =>
                        (f[2] \in DOMAIN query /\ query[f[2]] = args[f[1]])

\* C20: on every list method a page_token other than None is sent under
\* pageToken with the value given, and so is every other filter of the
\* method's table under its wire key; a value that is false but not None
\* goes through as it is.
C20_ValuesPassThrough ==
    ListSent =>
        LET table == ListTable[invoked]
            query == frame.request.params.d
            args == frame.args
        IN  /\ K_pageToken \in WireKeys(table)
            /\ DictGet(args, A_page_token) # PyNone =>
                 (K_pageToken \in DOMAIN query /\ query[K_pageToken] = args[A_page_token])
            /\ \A i \in DOMAIN table :
                 DictGet(args, table[i][2]) # PyNone =>
                    (table[i][1] \in DOMAIN query /\ query[table[i][1]] = args[table[i][2]])

\* A list call given page_token=False has handed over its request.
C20_Witness ==
    /\ ListSent
    /\ DictGet(frame.args, A_page_token) = PyFalse
    /\ K_pageToken \in DOMAIN frame.request.params.d

\* The resource families: the list, lookup and by-id method of each and the
\* path segment of the resource.
Families ==
    {
      [list |-> "get_organisations", lookup |-> "lookup_organisations", by_id |-> "get_organisation_by_id", resource |-> "organisations"],
      [list |-> "get_persons", lookup |-> "lookup_persons", by_id |-> "get_person_by_id", resource |-> "persons"],
      [list |-> "get_placements", lookup |-> "lookup_placements", by_id |-> "get_placement_by_id", resource |-> "placements"],
      [list |-> "get_duties", lookup |-> "lookup_duties", by_id |-> "get_duty_by_id", resource |-> "duties"],
      [list |-> "get_groups", lookup |-> "lookup_groups", by_id |-> "get_group_by_id", resource |-> "groups"],
      [list |-> "get_programmes", lookup |-> "lookup_programmes", by_id |-> "get_programme_by_id", resource |-> "programmes"],
      [list |-> "get_study_plans", lookup |-> "lookup_study_plans", by_id |-> "get_study_plan_by_id", resource |-> "studyplans"],
      [list |-> "get_syllabuses", lookup |-> "lookup_syllabuses", by_id |-> "get_syllabus_by_id", resource |-> "syllabuses"],
      [list |-> "get_school_unit_offerings", lookup |-> "lookup_school_unit_offerings", by_id |-> "get_school_unit_offering_by_id", resource |-> "schoolUnitOfferings"],
      [list |-> "get_activities", lookup |-> "lookup_activities", by_id |-> "get_activity_by_id", resource |-> "activities"],
      [list |-> "get_calendar_events", lookup |-> "lookup_calendar_events", by_id |-> "get_calendar_event_by_id", resource |-> "calendarEvents"],
      [list |-> "get_attendances", lookup |-> "lookup_attendances", by_id |-> "get_attendance_by_id", resource |-> "attendances"],
      [list |-> "get_attendance_events", lookup |-> "lookup_attendance_events", by_id |-> "get_attendance_event_by_id", resource |-> "attendanceEvents"],
      [list |-> "get_attendance_schedules", lookup |-> "lookup_attendance_schedules", by_id |-> "get_attendance_schedule_by_id", resource |-> "attendanceSchedules"],
      [list |-> "get_grades", lookup |-> "lookup_grades", by_id |-> "get_grade_by_id", resource |-> "grades"],
      [list |-> "get_aggregated_attendances", lookup |-> "lookup_aggregated_attendances", by_id |-> "get_aggregated_attendance_by_id", resource |-> "aggregatedAttendance"],
      [list |-> "get_resources", lookup |-> "lookup_resources", by_id |-> "get_resource_by_id", resource |-> "resources"],
      [list |-> "get_rooms", lookup |-> "lookup_rooms", by_id |-> "get_room_by_id", resource |-> "rooms"] }
ByIdMethods == {f.by_id : f \in Families}

\* C21: in every resource family the list method sends GET /<resource>, the
\* lookup method POST /<resource>/lookup and the by-id method
\* GET /<resource>/<id>, with the one <resource> of the family and the id
\* the caller gave as last segment.
C21_FamilyPaths ==
    Sent =>
        \A f \in Families :
            /\ invoked = f.list =>
                 (frame.request.method = "GET" /\ frame.path = <<f.resource>>)
            /\ invoked = f.lookup =>
                 (frame.request.method = "POST" /\ frame.path = <<f.resource, "lookup">>)
            /\ invoked = f.by_id =>
                 /\ frame.request.method = "GET"
                 /\ \E a \in DOMAIN frame.args :
                      /\ a[Len(a)] = "id"
                      /\ frame.path = <<f.resource, frame.args[a].s>>

\* get_aggregated_attendance_by_id("id2") has handed over its request.
C21_Witness ==
    /\ Sent /\ invoked = "get_aggregated_attendance_by_id"
    /\ frame.path = <<"aggregatedAttendance", "id2">>
    /\ frame.request.method = "GET"

A_subscription_id == <<"subscription", "id">>
A_attendance_id == <<"attendance", "id">>
A_expires == <<"expires">>
A_entities == <<"entities">>
A_meta_modified_after == <<"meta", "modified", "after">>

\* C22: update_subscription(id, expires) sends PATCH /subscriptions/<id> with
\* the body {expires: expires} and nothing else in it; delete_subscription(id)
\* sends DELETE /subscriptions/<id> and delete_attendance(id) sends
\* DELETE /attendances/<id>, each without query and without body.
C22_WriteOperations ==
    Sent =>
        /\ invoked = "update_subscription" =>
             /\ frame.request.method = "PATCH"
             /\ frame.path = <<"subscriptions", frame.args[A_subscription_id].s>>
             /\ frame.request.json.given
             /\ frame.request.json.d = Put(EmptyDict, K_expires, frame.args[A_expires])
        /\ invoked = "delete_subscription" =>
             /\ frame.request.method = "DELETE"
             /\ frame.path = <<"subscriptions", frame.args[A_subscription_id].s>>
             /\ frame.request.params = NoDict /\ frame.request.json = NoDict
        /\ invoked = "delete_attendance" =>
             /\ frame.request.method = "DELETE"
             /\ frame.path = <<"attendances", frame.args[A_attendance_id].s>>
             /\ frame.request.params = NoDict /\ frame.request.json = NoDict

\* update_subscription("id2", expires) has handed over its PATCH.
C22_Witness ==
    /\ Sent /\ invoked = "update_subscription"
    /\ frame.path = <<"subscriptions", "id2">>
    /\ K_expires \in DOMAIN frame.request.json.d

\* C23: get_deleted_entities(entities, meta_modified_after) with a list of
\* entities sends GET /deletedEntities without body; its query has entities
\* bound to the list given, has meta.modified.after bound to the timestamp
\* exactly when a (non-empty) timestamp was given, and has no other key.
C23_DeletedEntitiesQuery ==
    (Sent /\ invoked = "get_deleted_entities" /\ frame.args[A_entities].t = "list") =>
        LET query == frame.request.params
            after == frame.args[A_meta_modified_after]
        IN  /\ frame.request.method = "GET"
            /\ frame.path = <<"deletedEntities">>
            /\ frame.request.json = NoDict
            /\ query.given
            /\ DOMAIN query.d \subseteq {K_entities, K_metaModifiedAfter}
            /\ K_entities \in DOMAIN query.d
            /\ query.d[K_entities] = frame.args[A_entities]
            /\ Truthy(after) =>
                 (K_metaModifiedAfter \in DOMAIN query.d /\ query.d[K_metaModifiedAfter] = after)
            /\ ~Truthy(after) => K_metaModifiedAfter \notin DOMAIN query.d

\* get_deleted_entities(["Person"], timestamp) has handed over its request.
C23_Witness ==
    /\ Sent /\ invoked = "get_deleted_entities"
    /\ frame.args[A_entities] = List(<<Str("Person")>>)
    /\ K_metaModifiedAfter \in DOMAIN frame.request.params.d

\* C24: in every lookup call the JSON body has the key of an identifier
\* argument (ids, civicNos, schoolUnitCodes, organisationCodes) exactly when
\* that argument is a list that is not empty, and has no other key.
C24_LookupBodyOnlyPopulated ==
    (Sent /\ invoked \in LookupMethods) =>
        LET body == frame.request.json
            populated(a) == LET v == DictGet(frame.args, a)
                            IN  v.t = "list" /\ v.l # <<>>
        IN  /\ body.given
            /\ (K_ids \in DOMAIN body.d) <=> populated(A_ids)
            /\ (K_civicNos \in DOMAIN body.d) <=> populated(A_civic_nos)
            /\ (K_schoolUnitCodes \in DOMAIN body.d) <=> populated(A_school_unit_codes)
            /\ (K_organisationCodes \in DOMAIN body.d) <=> populated(A_organisation_codes)
            /\ DOMAIN body.d \subseteq
                   {K_ids, K_civicNos, K_schoolUnitCodes, K_organisationCodes}

\* lookup_organisations(ids=[], school_unit_codes=[c1]) has handed over its request.
C24_Witness ==
    /\ Sent /\ invoked = "lookup_organisations"
    /\ frame.args[A_ids] = List(<<>>)
    /\ DOMAIN frame.request.json.d = {K_schoolUnitCodes}

\* C25: no call hands the transport a query mapping in which a key is bound
\* to None.
C25_NoNoneInAnyQuery ==
    Sent => \A k \in DOMAIN frame.request.params.d : frame.request.params.d[k] # PyNone

\* C26: every request is made with the timeout of 30 seconds, and a call
\* that has handed its request to the transport eventually returns a value
\* or raises.
C26_EveryCallTerminates ==
    /\ [](Sent => frame.request.timeout = 30)
    /\ Sent ~> (Done /\ outcome.kind \in {"return", "raise"})

\* A call that got no answer has raised Timeout.
C26_Witness ==
    /\ Done /\ response = TransportFailure("Timeout")
    /\ outcome.kind = "raise" /\ outcome.exc = "Timeout"

A_cancelled == <<"cancelled">>
K_cancelled == <<<<"cancelled">>>>

\* C27: in every list call a filter of the method's table given False, 0,
\* the empty string or the empty list is in the query under its wire key
\* with that value; get_calendar_events(cancelled=False) sends exactly
\* cancelled=False and get_organisations(expand_reference_names=False)
\* exactly expandReferenceNames=False.
C27_OnlyNoneDropped ==
    ListSent =>
        LET table == ListTable[invoked]
            query == frame.request.params.d
            args == frame.args
        IN  /\ \A i \in DOMAIN table :
                 LET v == DictGet(args, table[i][2])
                 IN  (v # PyNone /\ ~Truthy(v)) =>
                        (table[i][1] \in DOMAIN query /\ query[table[i][1]] = v)
            /\ (invoked = "get_calendar_events" /\ args = Kw(<<<<A_cancelled, PyFalse>>>>))
                 => query = Put(EmptyDict, K_cancelled, PyFalse)
            /\ (invoked = "get_organisations"
                   /\ args = Kw(<<<<A_expand_reference_names, PyFalse>>>>))
                 => query = Put(EmptyDict, K_expandReferenceNames, PyFalse)

\* get_calendar_events was called with a false value other than False for a
\* filter and has handed over its request.
C27_Witness ==
    /\ ListSent /\ invoked = "get_calendar_events"
    /\ \E n \in DOMAIN frame.args : frame.args[n] \in {PyInt("0"), Str(""), List(<<>>)}
    /\ DOMAIN frame.request.params.d # {}

\* C28: in every lookup and by-id call the query has expandReferenceNames
\* exactly when expand_reference_names is true and expand exactly when
\* expand is a list that is not empty, and nothing else; with the defaults
\* the query is empty, and a False flag is never in it.
C28_FlagsOnlyWhenTruthy ==
    (Sent /\ invoked \in LookupMethods \cup ByIdMethods \cup {"get_subscription_by_id"}) =>
        LET query == frame.request.params.d
            flag == DictGet(frame.args, A_expand_reference_names)
            expand == DictGet(frame.args, A_expand)
        IN  /\ (K_expandReferenceNames \in DOMAIN query) <=> (flag = PyTrue)
            /\ (K_expand \in DOMAIN query) <=> (expand.t = "list" /\ expand.l # <<>>)
            /\ DOMAIN query \subseteq {K_expand, K_expandReferenceNames}
            /\ \A k \in DOMAIN query : query[k] # PyFalse
            /\ (expand = PyNone /\ flag \in {PyNone, PyFalse}) => query = EmptyDict

\* A by-id call with expand=[] and expand_reference_names=False has handed
\* over a request with an empty query.
C28_Witness ==
    /\ Sent /\ invoked \in ByIdMethods
    /\ DictGet(frame.args, A_expand) = List(<<>>)
    /\ DictGet(frame.args, A_expand_reference_names) = PyFalse
    /\ frame.request.params = Given(EmptyDict)

\* The list methods whose table has no expand filter.
NoExpandListMethods ==
    {"get_organisations", "get_syllabuses", "get_resources", "get_rooms",
     "get_subscriptions", "get_log", "get_statistics"}

\* C29: in every list call every key of the query is a wire key of the
\* method's table, whatever keywords were given: a keyword the table does
\* not read is not sent under its own name, and the methods without expand
\* filter never send expand.
C29_QueryKeysFromTable ==
    ListSent =>
        LET table == ListTable[invoked]
            query == frame.request.params.d
        IN  /\ DOMAIN query \subseteq WireKeys(table)
            /\ \A n \in DOMAIN frame.args :
                 n \notin KwNames(table) => <<n>> \notin DOMAIN query
            /\ invoked \in NoExpandListMethods =>
                 (K_expand \notin WireKeys(table) /\ K_expand \notin DOMAIN query)

\* get_resources(expand=...) has handed over a request with an empty query.
C29_Witness ==
    /\ ListSent /\ invoked = "get_resources"
    /\ DictGet(frame.args, A_expand) = Str("2024-01-01")
    /\ frame.request.params = Given(EmptyDict)

\* C30: a 4xx/5xx answer never gives a returned value, its body being JSON
\* or not; a 204 answer gives None without its body being decoded, so it
\* raises nothing even when the body is empty or is not JSON.
C30_StatusBeforeDecoding ==
    (Done /\ response.kind = "http") =>
        /\ (400 <= response.status /\ response.status < 600) =>
             (outcome.kind = "raise" /\ outcome.exc = "HTTPError" /\ outcome.value = PyNone)
        /\ response.status = 204 =>
             (outcome.kind = "return" /\ outcome.value = PyNone /\ outcome.printed = <<>>)

\* A 204 answer with an empty body has returned.
C30_Witness ==
    /\ Done /\ response = HttpResponse(204, "")
    /\ outcome.kind = "return"

=============================================================================
